---- MODULE Spec2Model ----
(***************************************************************************)
(* Model of the inline calculator of src/main.py: the price aggregation    *)
(* (fetch_cbr_prices, get_binance_price, fetch_all_prices under            *)
(* asyncio.gather) and the expression pipeline of evaluate_expression      *)
(* (token substitution, percentage rewriting, the character gate, eval,    *)
(* Decimal rounding with getcontext().prec = 18, and formatting).          *)
(*                                                                         *)
(* Text is a sequence of one-character strings.  Numbers are computed as   *)
(* the interpreter computes them: Python ints are exact, Python floats are *)
(* IEEE-754 binary64 values (a 53-bit significand and a binary exponent,   *)
(* every operation rounded to nearest, ties to even), Decimals carry a     *)
(* coefficient and a decimal exponent.  Since the model checker's integers *)
(* are 32 bits wide, naturals wider than that are sequences of base-10000  *)
(* limbs, most significant first.                                          *)
(***************************************************************************)
EXTENDS Integers, Sequences, FiniteSets, TLC

Max2(x, y) == IF x > y THEN x ELSE y

Min2(x, y) == IF x < y THEN x ELSE y

SetMin(S) == CHOOSE x \in S : \A y \in S : x <= y

SetMax(S) == CHOOSE x \in S : \A y \in S : x >= y

\* The function f on 1..n as an explicit tuple of its n values.
Tup(f, n) == SubSeq(f, 1, n)

BStrip(a) ==
    LET nz == {i \in 1..Len(a) : a[i] # 0}
    IN  IF nz = {} THEN <<>>
        ELSE SubSeq(a, CHOOSE i \in nz : \A j \in nz : i <= j, Len(a))

\* Limb i of a written with n limbs (leading zeros added).
Limb(a, n, i) == IF i > n - Len(a) THEN a[i - (n - Len(a))] ELSE 0

BFromNat(n) ==
    IF n = 0 THEN <<>>
    ELSE IF n < 10000 THEN <<n>>
    ELSE IF n < 100000000 THEN <<n \div 10000, n % 10000>>
    ELSE <<n \div 100000000, (n \div 10000) % 10000, n % 10000>>

\* The value of a as a machine integer; only for Len(a) <= 2.
BToNat(a) == IF a = <<>> THEN 0 ELSE IF Len(a) = 1 THEN a[1] ELSE a[1] * 10000 + a[2]

\* a + b: the limb sums s, then the carries, found by looking ahead (a carry
\* enters limb i when some limb below overflows and every limb between is
\* 9999).
BAdd(a, b) ==
    LET n == Max2(Len(a), Len(b))
        \* c[i + 1] is the carry into limb i (limb 0 being the new leading limb)
        Carries(s) ==
            Tup([i \in 1..(n + 1) |->
                   IF \E j \in i..n : s[j] >= 10000 /\ \A k \in i..(j - 1) : s[k] = 9999
                   THEN 1 ELSE 0], n + 1)
        Total(s, c) == [i \in 1..(n + 1) |-> IF i = 1 THEN c[1] ELSE (s[i - 1] + c[i]) % 10000]
        Sum(s) == Total(s, Carries(s))
    IN  BStrip(IF a = <<>> THEN b
               ELSE IF b = <<>> THEN a
               ELSE Sum(Tup([i \in 1..n |-> Limb(a, n, i) + Limb(b, n, i)], n)))

\* a - b for a >= b: the limb differences d, then the borrows.
BSub(a, b) ==
    LET n == Len(a)
        Borrows(d) ==
            Tup([i \in 1..n |->
                   IF \E j \in (i + 1)..n : d[j] < 0 /\ \A k \in (i + 1)..(j - 1) : d[k] = 0
                   THEN 1 ELSE 0], n)
        Rest(d, w) == [i \in 1..n |-> (d[i] - w[i] + 10000) % 10000]
        Diff(d) == Rest(d, Borrows(d))
    IN  IF b = <<>> THEN a
        ELSE BStrip(Diff(Tup([i \in 1..n |-> a[i] - Limb(b, n, i)], n)))

BLess(a, b) ==
    IF Len(a) # Len(b) THEN Len(a) < Len(b)
    ELSE \E i \in 1..Len(a) : a[i] < b[i] /\ \A k \in 1..(i - 1) : a[k] = b[k]

RECURSIVE BSum(_)
\* The sum of a non-empty sequence of naturals.
BSum(vs) == IF Len(vs) = 1 THEN vs[1] ELSE BAdd(vs[1], BSum(Tail(vs)))

\* a * k for a machine integer 0 <= k < 10000.
BMulSmall(a, k) ==
    IF a = <<>> \/ k = 0 THEN <<>>
    ELSE IF k = 1 THEN a
    ELSE
    LET n == Len(a)
    IN  BAdd(Tup([i \in 1..n |-> (a[i] * k) % 10000], n),
             Tup([i \in 1..(n + 1) |-> IF i <= n THEN (a[i] * k) \div 10000 ELSE 0], n + 1))

RECURSIVE BRemSeq(_, _, _)
\* The remainders modulo k of the prefixes a[1..1], ..., a[1..i].
BRemSeq(a, k, i) ==
    IF i = 0 THEN <<>>
    ELSE LET p == BRemSeq(a, k, i - 1)
         IN  Append(p, ((IF i = 1 THEN 0 ELSE p[i - 1]) * 10000 + a[i]) % k)

\* <<a div k, a mod k>> for a machine integer 1 <= k < 10000.
BDivSmall(a, k) ==
    LET n == Len(a)
        Quot(r) ==
            <<BStrip(Tup([i \in 1..n |-> ((IF i = 1 THEN 0 ELSE r[i - 1]) * 10000 + a[i]) \div k], n)),
              r[n]>>
    IN  IF a = <<>> THEN <<<<>>, 0>> ELSE Quot(BRemSeq(a, k, n))

RECURSIVE ColSum(_, _, _, _, _, _)
\* The sum over i in lo..hi of the low (or high) limb of a[i] * b[c - i].
ColSum(a, b, c, lo, hi, high) ==
    IF lo > hi THEN 0
    ELSE IF lo = hi
         THEN (IF high THEN (a[lo] * b[c - lo]) \div 10000 ELSE (a[lo] * b[c - lo]) % 10000)
    ELSE LET mid == (lo + hi) \div 2
         IN  ColSum(a, b, c, lo, mid, high) + ColSum(a, b, c, mid + 1, hi, high)

\* a * b by columns: column r collects the products a[i] * b[j], i + j = r + 1;
\* the low and the high limbs of the products are summed apart, and the four
\* rows of limbs and carries that result are added.
BMul(a, b) ==
    LET la == Len(a)
        lb == Len(b)
        n  == la + lb - 1
        Cols(high) ==
            Tup([r \in 1..n |-> ColSum(a, b, r + 1, Max2(1, r + 1 - lb), Min2(la, r), high)], n)
        Rows(lo, hi) ==
            <<Tup([r \in 1..n |-> lo[r] % 10000], n),
              Tup([r \in 1..(n + 1) |-> IF r <= n THEN lo[r] \div 10000 ELSE 0], n + 1),
              Tup([r \in 1..(n + 1) |-> IF r <= n THEN hi[r] % 10000 ELSE 0], n + 1),
              Tup([r \in 1..(n + 2) |-> IF r <= n THEN hi[r] \div 10000 ELSE 0], n + 2)>>
    IN  IF a = <<>> \/ b = <<>> THEN <<>>
        ELSE IF b = <<1>> THEN a
        ELSE BSum(Rows(Cols(FALSE), Cols(TRUE)))

RECURSIVE BQuotLimb(_, _, _)
\* <<q, r'>> with r = q*b + r', r' < b, for r < 10000*b and Len(b) >= 2:
\* an underestimate of the quotient from the leading limbs, repeated.
BQuotLimb(r, b, q) ==
    IF BLess(r, b) THEN <<q, r>>
    ELSE LET top == IF Len(r) > Len(b) THEN r[1] * 10000 + r[2] ELSE r[1]
             est == Max2(1, top \div (b[1] + 1))
         IN  BQuotLimb(BSub(r, BMulSmall(b, est)), b, q + est)

RECURSIVE BDivModGo(_, _, _)
\* Long division of a by b up to limb i of a: <<quotient limbs, remainder>>.
BDivModGo(a, b, i) ==
    LET p == BDivModGo(a, b, i - 1)
        Emit(c) == <<Append(p[1], c[1]), c[2]>>
    IN  IF i < Len(b) THEN <<<<>>, SubSeq(a, 1, Min2(i, Len(a)))>>
        ELSE Emit(BQuotLimb(BStrip(Append(p[2], a[i])), b, 0))

\* <<a div b, a mod b>> for b > 0 (schoolbook long division, the divisor
\* scaled so that its leading limb is at least 5000).
BDivMod(a, b) ==
    LET k == 10000 \div (b[1] + 1)
        Short(d) == <<d[1], BFromNat(d[2])>>
        Long(s) == BDivModGo(s[1], s[2], Len(s[1]))
        Unscale(d, r) == <<BStrip(d[1]), r[1]>>
        Rem(d) == Unscale(d, BDivSmall(BStrip(d[2]), k))
    IN  IF Len(b) = 1 THEN Short(BDivSmall(a, b[1]))
        ELSE Rem(Long(Tup([i \in 1..2 |-> BMulSmall(IF i = 1 THEN a ELSE b, k)], 2)))

RECURSIVE BPow(_, _)
\* a^n, by squaring.
BPow(a, n) ==
    IF n = 0 THEN <<1>>
    ELSE LET h == BPow(a, n \div 2)
         IN  BMul(BMul(h, h), IF n % 2 = 1 THEN a ELSE <<1>>)

\* The powers 2^0 .. 2^127, computed once.
Pow2Table == Tup([i \in 1..128 |-> BPow(<<2>>, i - 1)], 128)

BPow2(k) == IF k < 128 THEN Pow2Table[k + 1] ELSE BPow(<<2>>, k)

BMulPow2(a, k) == IF k = 0 \/ a = <<>> THEN a ELSE BMul(a, BPow2(k))

Pow10(k) == IF k = 0 THEN 1 ELSE IF k = 1 THEN 10 ELSE IF k = 2 THEN 100 ELSE 1000

BMulPow10(a, k) ==
    IF a = <<>> THEN a
    ELSE BMulSmall(a \o [i \in 1..(k \div 4) |-> 0], Pow10(k % 4))

\* <<a div 2^k, sticky>>: sticky is TRUE when a mod 2^k # 0.
BDivPow2(a, k) ==
    LET Sticky(d) == <<d[1], d[2] # <<>>>>
    IN  IF k = 0 \/ a = <<>> THEN <<a, FALSE>> ELSE Sticky(BDivMod(a, BPow2(k)))

\* <<a div 10^k, sticky>>.
BDivPow10(a, k) ==
    LET drop == Min2(k \div 4, Len(a))
        Sticky(d) ==
            <<IF k \div 4 > Len(a) THEN <<>> ELSE d[1],
              d[2] # 0 \/ \E i \in (Len(a) - drop + 1)..Len(a) : a[i] # 0>>
    IN  Sticky(BDivSmall(SubSeq(a, 1, Len(a) - drop), Pow10(k % 4)))

BIsOdd(a) == a # <<>> /\ a[Len(a)] % 2 = 1

NatDigits(n) == IF n >= 1000 THEN 4 ELSE IF n >= 100 THEN 3 ELSE IF n >= 10 THEN 2 ELSE 1

\* Number of decimal digits of a (1 for 0, as len(str(0))).
BNumDigits(a) == IF a = <<>> THEN 1 ELSE 4 * (Len(a) - 1) + NatDigits(a[1])

\* The decimal digits of a, most significant first (<<0>> for 0).
BDigits(a) ==
    IF a = <<>> THEN <<0>>
    ELSE LET n   == BNumDigits(a)
             off == 4 * Len(a) - n
         IN  Tup([p \in 1..n |->
                    LET q == p + off
                        l == a[(q + 3) \div 4]
                        r == (q - 1) % 4
                    IN  (l \div Pow10(3 - r)) % 10], n)

\* The natural written by a sequence of decimal digits.
BFromDigits(d) ==
    LET n == Len(d)
        l == (n + 3) \div 4
        dg(p) == IF p >= 1 THEN d[p] ELSE 0
    IN  BStrip([j \in 1..l |->
                  LET e == n - 4 * (l - j)
                  IN  1000 * dg(e - 3) + 100 * dg(e - 2) + 10 * dg(e - 1) + dg(e)])

(***************************************************************************)
(* Python objects that eval can produce from the gated alphabet, and the   *)
(* exceptions it can raise.  Every value is a record [t, neg, m, e]:       *)
(*   t = "int"    the integer (-1)^neg * m            (m a natural, e = 0) *)
(*   t = "float"  the binary64 value (-1)^neg * m * 2^e, with m = 0 (the   *)
(*                zeros) or 2^52 <= m < 2^53                               *)
(*   t = "tuple"  the empty tuple (), t = "ellipsis" the object ...        *)
(*   t = an exception class name: the evaluation raised it                 *)
(*   t = "unsupported": a result outside the binary64 range modelled here  *)
(*                (overflow, subnormals, inexact pow, huge int powers)     *)
(***************************************************************************)
Obj(t, neg, m, e) == [t |-> t, neg |-> neg, m |-> m, e |-> e]

PyInt(neg, m) == Obj("int", neg /\ m # <<>>, m, 0)

Raise(name) == Obj(name, FALSE, <<>>, 0)

Unsupported == Obj("unsupported", FALSE, <<>>, 0)

IsNumber(v) == v.t \in {"int", "float"}

IsValue(v) == v.t \in {"int", "float", "tuple", "ellipsis"}

\* 2^52 and 2^53 in limbs: 4503599627370496 and 9007199254740992.
Pow2_52 == <<4503, 5996, 2737, 496>>

Pow2_53 == <<9007, 1992, 5474, 992>>

\* floor(x * 3322 / 1000) - 1 <= floor(x * log2(10)) for the decimal
\* exponents that occur; used only to pick a scaling, not a result.
Log2Lower(x) == ((x * 3322) \div 1000) - 1

\* The last step of a rounding to 53 bits, ties to even: h is <<the leading
\* 54 bits, whether bits were dropped below them>>, sticky whether the division
\* left a remainder, e the exponent of the 53-bit result.  The value is
\* <<m, e, inexact>> with 2^52 <= m < 2^53.
RoundHalfEven(h, sticky, e) ==
    LET m0 == BDivSmall(h[1], 2)[1]
        Carried(m1) ==
            IF m1 = Pow2_53 THEN <<Pow2_52, e + 1, TRUE>>
            ELSE <<m1, e, BIsOdd(h[1]) \/ h[2] # 0 \/ sticky>>
    IN  Carried(IF BIsOdd(h[1]) /\ (h[2] # 0 \/ sticky \/ BIsOdd(m0))
                THEN BAdd(m0, <<1>>) ELSE m0)

\* The rounding of a quotient qr = <<q, remainder>> of 53 + k bits, k in 1..13,
\* that stands for q * 2^e.
RoundQuotient(qr, e) ==
    LET k == SetMin({j \in 1..13 : BLess(qr[1], BMulSmall(Pow2_53, 2 ^ j))})
    IN  RoundHalfEven(BDivSmall(qr[1], 2 ^ (k - 1)), qr[2] # <<>>, e + k)

(***************************************************************************)
(* The binary64 value nearest to n / d * 2^e0 (ties to even), for naturals *)
(* n > 0 and d > 0: <<m, e, inexact>> with 2^52 <= m < 2^53.  The quotient *)
(* is computed with at least three extra bits, the scaling 2^s being       *)
(* chosen from the numbers of decimal digits of n and d.                   *)
(***************************************************************************)
RoundRational(n, d, e0) ==
    LET s == 56 - Log2Lower(BNumDigits(n) - BNumDigits(d) - 1)
        Quotient(scaled) ==
            BDivMod(IF s >= 0 THEN scaled ELSE n, IF s >= 0 THEN d ELSE scaled)
    IN  RoundQuotient(Quotient(BMulPow2(IF s >= 0 THEN n ELSE d, IF s >= 0 THEN s ELSE 0 - s)),
                      e0 - s)

\* The float (-1)^neg * n / d * 2^e0 rounded to binary64; zero keeps its sign.
\* Beyond the largest finite double the result is marked "overflow";
\* below the smallest normal double it is outside the model, as is an
\* inexact result where strict asks for an exact one.
MkFloat(neg, n, d, e0, strict) ==
    LET Ranged(r) ==
            IF strict /\ r[3] THEN Unsupported
            ELSE IF r[2] > 971 THEN Obj("overflow", neg, <<>>, 0)
            ELSE IF r[2] < -1074 THEN Unsupported
            ELSE Obj("float", neg, r[1], r[2])
    IN  IF n = <<>> THEN Obj("float", neg, <<>>, 0) ELSE Ranged(RoundRational(n, d, e0))

\* The exact result of an operation that rounds: (-1)^neg * n / d * 2^e.
Exact(neg, n, d, e, strict) ==
    [t |-> "exact", neg |-> neg, m |-> n, d |-> d, e |-> e, strict |-> strict]

\* The float of an exact result, inf standing for a result beyond the range.
Rounded(r, inf) ==
    LET Ranged(f) == IF f.t = "overflow" THEN inf ELSE f
    IN  IF r.t # "exact" THEN r ELSE Ranged(MkFloat(r.neg, r.m, r.d, r.e, r.strict))

\* float(i) for a Python int (OverflowError beyond the binary64 range).
ToFloat(v) ==
    IF v.t = "float" THEN v
    ELSE Rounded(Exact(v.neg, v.m, <<1>>, 0, FALSE), Raise("OverflowError"))

\* Signed sum of two magnitudes: <<neg, magnitude>>; an exact zero is +0
\* unless both operands are negative (round-to-nearest).
SignedAdd(n1, a, n2, b) ==
    IF n1 = n2 THEN <<n1, BAdd(a, b)>>
    ELSE IF a = b THEN <<FALSE, <<>>>>
    ELSE <<IF BLess(a, b) THEN n2 ELSE n1,
           BSub(IF BLess(a, b) THEN b ELSE a, IF BLess(a, b) THEN a ELSE b)>>

\* x + y: the mantissa of the operand with the larger exponent is brought
\* to the smaller exponent, and the sum is exact.
FloatAdd(x, y) ==
    LET emin == Min2(x.e, y.e)
        Sum(r) == Exact(r[1], r[2], <<1>>, emin, FALSE)
        Aligned(m) ==
            SignedAdd(x.neg, IF x.e > y.e THEN m ELSE x.m, y.neg, IF x.e > y.e THEN y.m ELSE m)
    IN  Sum(Aligned(BMulPow2(IF x.e > y.e THEN x.m ELSE y.m,
                             IF x.e > y.e THEN x.e - y.e ELSE y.e - x.e)))

\* Unary minus: an int zero stays 0, a float zero changes sign.
FloatNeg(x) == Obj(x.t, IF x.t = "int" THEN (~x.neg /\ x.m # <<>>) ELSE ~x.neg, x.m, x.e)

FloatMul(x, y) == Exact(x.neg # y.neg, BMul(x.m, y.m), <<1>>, x.e + y.e, FALSE)

FloatDiv(x, y) ==
    IF y.m = <<>> THEN Raise("ZeroDivisionError")
    ELSE Exact(x.neg # y.neg, x.m, y.m, x.e - y.e, FALSE)

\* fmod(x, y) for y # 0: the exact remainder of |x| by |y|, with the sign of
\* x (a zero remainder keeps that sign too).
FloatFMod(x, y) ==
    LET emin == Min2(x.e, y.e)
        Rem(a, b) == IF a = <<>> THEN <<>> ELSE BDivMod(a, b)[2]
    IN  MkFloat(x.neg, Rem(BMulPow2(x.m, x.e - emin), BMulPow2(y.m, y.e - emin)),
                <<1>>, emin, FALSE)

\* floor(x) for a float x: a positive fraction gives +0.0.
FloatFloor(x) ==
    LET Up(q) == IF x.neg /\ q[2] THEN BAdd(q[1], <<1>>) ELSE q[1]
        Whole(q) == MkFloat(x.neg /\ q # <<>>, q, <<1>>, 0, FALSE)
    IN  IF x.m = <<>> \/ x.e >= 0 THEN x ELSE Whole(Up(BDivPow2(x.m, 0 - x.e)))

\* x // y (float_floor_div with _float_div_mod), every step rounded as the
\* C code rounds it: mod = fmod(x, y); div = (x - mod) / y; when mod is not
\* zero and its sign differs from the sign of y, div -= 1.0; the result is
\* floor(div), plus 1.0 when div - floor(div) > 0.5, and a zero with the
\* sign of x / y when div is zero.  A step whose result is outside the
\* model leaves the whole operation outside it.
FloatFloorDiv(x, y) ==
    LET One == Obj("float", FALSE, Pow2_52, -52)
        AboveHalf(d) == ~d.neg /\ d.m # <<>> /\ (d.e > -53 \/ (d.e = -53 /\ d.m # Pow2_52))
        Plus(a, b) ==
            IF a.t # "float" THEN a
            ELSE IF b.t # "float" THEN b
            ELSE Rounded(FloatAdd(a, b), Unsupported)
        Minus(a, b) == IF b.t # "float" THEN b ELSE Plus(a, FloatNeg(b))
        Quotient(t) ==
            IF t.t # "float" THEN t ELSE Rounded(FloatDiv(t, y), Unsupported)
        Adjusted(mod, div) ==
            IF mod.m # <<>> /\ y.neg # mod.neg THEN Minus(div, One) ELSE div
        Snapped(div, fl) ==
            IF fl.t # "float" THEN fl
            ELSE IF AboveHalf(Minus(div, fl)) THEN Plus(fl, One)
            ELSE fl
        Snap(div) ==
            IF div.t # "float" THEN div
            ELSE IF div.m = <<>> THEN Obj("float", x.neg # y.neg, <<>>, 0)
            ELSE Snapped(div, FloatFloor(div))
        DivMod(mod) ==
            IF mod.t # "float" THEN mod
            ELSE Snap(Adjusted(mod, Quotient(Minus(x, mod))))
    IN  IF y.m = <<>> THEN Raise("ZeroDivisionError") ELSE DivMod(FloatFMod(x, y))

\* The integer n with y = n for a float y with |y| < 10000, else 10000
\* (not a small integer).
SmallInt(y) ==
    LET Whole(q) ==
            IF q[2] \/ Len(q[1]) > 1 THEN 10000
            ELSE IF y.neg THEN 0 - q[1][1] ELSE q[1][1]
    IN  IF y.m = <<>> THEN 0
        ELSE IF y.e > 0 \/ y.e < -52 THEN 10000
        ELSE Whole(BDivPow2(y.m, 0 - y.e))

\* float_pow(x, y) for an exponent y that is the integer n: exact results
\* only.  libm's pow is accurate to under one unit in the last place, so a
\* representable power is returned exactly; a power that needs rounding is
\* outside the model, as is a non-integer exponent (n = 10000).
FloatPowInt(x, n) ==
    LET a == IF n < 0 THEN 0 - n ELSE n
        neg == x.neg /\ a % 2 = 1
    IN  IF n = 10000 THEN Unsupported
        ELSE IF n = 0 THEN Obj("float", FALSE, Pow2_52, -52)
        ELSE IF x.m = <<>>
             THEN (IF n < 0 THEN Raise("ZeroDivisionError") ELSE Obj("float", neg, <<>>, 0))
        ELSE IF x.m = Pow2_52 THEN Exact(neg, <<1>>, <<1>>, (x.e + 52) * n, FALSE)
        ELSE IF n < 0 \/ a > 8 THEN Unsupported
        ELSE Exact(neg, BPow(x.m, a), <<1>>, x.e * a, TRUE)

FloatPow(x, y) == FloatPowInt(x, SmallInt(y))

MaxPowDigits == 80

\* int ** int for a non-negative exponent (long_pow): exact.  Powers of more
\* than MaxPowDigits digits are outside the model.
IntPow(a, b) ==
    IF b.m = <<>> THEN PyInt(FALSE, <<1>>)
    ELSE IF Len(b.m) > 1 \/ BNumDigits(a.m) * b.m[1] > MaxPowDigits THEN Unsupported
    ELSE PyInt(a.neg /\ b.m[1] % 2 = 1, BPow(a.m, b.m[1]))

IntFloorDiv(a, b) ==
    LET neg == a.neg # b.neg
        Floor(qr) == PyInt(neg, IF neg /\ qr[2] # <<>> THEN BAdd(qr[1], <<1>>) ELSE qr[1])
    IN  IF b.m = <<>> THEN Raise("ZeroDivisionError") ELSE Floor(BDivMod(a.m, b.m))

\* long_true_divide: the correctly rounded quotient of two ints.
IntTrueDiv(a, b) ==
    IF b.m = <<>> THEN Raise("ZeroDivisionError")
    ELSE Exact(a.neg # b.neg, a.m, b.m, 0, FALSE)

IntBinOp(op, a, b) ==
    LET Signed(r) == PyInt(r[1], r[2])
    IN  CASE op \in {"+", "-"} ->
                Signed(SignedAdd(a.neg, a.m, IF op = "-" THEN ~b.neg ELSE b.neg, b.m))
          [] op = "*"  -> PyInt(a.neg # b.neg, BMul(a.m, b.m))
          [] op = "/"  -> IntTrueDiv(a, b)
          [] op = "//" -> IntFloorDiv(a, b)
          [] op = "**" -> IntPow(a, b)

FloatBinOp(op, x, y) ==
    CASE op \in {"+", "-"} -> FloatAdd(x, IF op = "-" THEN FloatNeg(y) ELSE y)
      [] op = "*"  -> FloatMul(x, y)
      [] op = "/"  -> FloatDiv(x, y)
      [] op = "//" -> FloatFloorDiv(x, y)
      [] op = "**" -> FloatPow(x, y)

\* A float operation on the operands xy once converted: a conversion that
\* raised is the result.
FloatOperands(op, xy) ==
    IF xy[1].t # "float" THEN xy[1]
    ELSE IF xy[2].t # "float" THEN xy[2]
    ELSE FloatBinOp(op, xy[1], xy[2])

(***************************************************************************)
(* A binary operator applied to two objects (both already evaluated).      *)
(* Two ints follow int arithmetic, except a negative power, which like a   *)
(* mixed operation converts both operands to float first; a result that    *)
(* is a float is rounded once; an int division that overflows raises       *)
(* OverflowError, and a float result beyond the range (inf) is outside the *)
(* model.  () + () and () * int are tuple concatenation and repetition;    *)
(* everything else is a TypeError.                                         *)
(***************************************************************************)
PyBinOp(op, a, b) ==
    LET ints == a.t = "int" /\ b.t = "int" /\ ~(op = "**" /\ b.neg)
        count == IF a.t = "int" THEN a ELSE b
    IN  Rounded(IF ints THEN IntBinOp(op, a, b)
                ELSE IF IsNumber(a) /\ IsNumber(b)
                THEN FloatOperands(op, Tup([i \in 1..2 |-> ToFloat(IF i = 1 THEN a ELSE b)], 2))
                ELSE IF op = "+" /\ a.t = "tuple" /\ b.t = "tuple" THEN a
                ELSE IF op = "*" /\ {a.t, b.t} = {"tuple", "int"}
                THEN (IF BLess(count.m, BMulSmall(Pow2_53, 512))
                      THEN Obj("tuple", FALSE, <<>>, 0) ELSE Unsupported)
                ELSE Raise("TypeError"),
                IF ints THEN Raise("OverflowError") ELSE Unsupported)

PyUnaryOp(op, a) ==
    IF ~IsNumber(a) THEN Raise("TypeError")
    ELSE IF op = "-" THEN FloatNeg(a)
    ELSE a

(***************************************************************************)
(* Text.  A string is a sequence of characters; a character is a string:   *)
(* a printable ASCII character (but the grave accent), tab, line feed,     *)
(* form feed and carriage return are written as themselves, any other      *)
(* character as "U+" and the four or more hexadecimal digits of its code   *)
(* point ("U+00E9" is e with acute, "U+0663" is ARABIC-INDIC DIGIT THREE,  *)
(* "U+0060" the grave accent).  The character classes                      *)
(* are those of Unicode 14.0, the database of the Python 3.11 the program  *)
(* runs on.                                                                *)
(***************************************************************************)
AsciiDigits == {"0", "1", "2", "3", "4", "5", "6", "7", "8", "9"}

\* The decimal digits of Unicode (category Nd), one row per script: the
\* character at position k of a row is the digit k - 1.
DigitRows ==
    {<<"0", "1", "2", "3", "4", "5", "6", "7", "8", "9">>,
     <<"U+0660", "U+0661", "U+0662", "U+0663", "U+0664", "U+0665", "U+0666", "U+0667", "U+0668", "U+0669">>,
     <<"U+06F0", "U+06F1", "U+06F2", "U+06F3", "U+06F4", "U+06F5", "U+06F6", "U+06F7", "U+06F8", "U+06F9">>,
     <<"U+07C0", "U+07C1", "U+07C2", "U+07C3", "U+07C4", "U+07C5", "U+07C6", "U+07C7", "U+07C8", "U+07C9">>,
     <<"U+0966", "U+0967", "U+0968", "U+0969", "U+096A", "U+096B", "U+096C", "U+096D", "U+096E", "U+096F">>,
     <<"U+09E6", "U+09E7", "U+09E8", "U+09E9", "U+09EA", "U+09EB", "U+09EC", "U+09ED", "U+09EE", "U+09EF">>,
     <<"U+0A66", "U+0A67", "U+0A68", "U+0A69", "U+0A6A", "U+0A6B", "U+0A6C", "U+0A6D", "U+0A6E", "U+0A6F">>,
     <<"U+0AE6", "U+0AE7", "U+0AE8", "U+0AE9", "U+0AEA", "U+0AEB", "U+0AEC", "U+0AED", "U+0AEE", "U+0AEF">>,
     <<"U+0B66", "U+0B67", "U+0B68", "U+0B69", "U+0B6A", "U+0B6B", "U+0B6C", "U+0B6D", "U+0B6E", "U+0B6F">>,
     <<"U+0BE6", "U+0BE7", "U+0BE8", "U+0BE9", "U+0BEA", "U+0BEB", "U+0BEC", "U+0BED", "U+0BEE", "U+0BEF">>,
     <<"U+0C66", "U+0C67", "U+0C68", "U+0C69", "U+0C6A", "U+0C6B", "U+0C6C", "U+0C6D", "U+0C6E", "U+0C6F">>,
     <<"U+0CE6", "U+0CE7", "U+0CE8", "U+0CE9", "U+0CEA", "U+0CEB", "U+0CEC", "U+0CED", "U+0CEE", "U+0CEF">>,
     <<"U+0D66", "U+0D67", "U+0D68", "U+0D69", "U+0D6A", "U+0D6B", "U+0D6C", "U+0D6D", "U+0D6E", "U+0D6F">>,
     <<"U+0DE6", "U+0DE7", "U+0DE8", "U+0DE9", "U+0DEA", "U+0DEB", "U+0DEC", "U+0DED", "U+0DEE", "U+0DEF">>,
     <<"U+0E50", "U+0E51", "U+0E52", "U+0E53", "U+0E54", "U+0E55", "U+0E56", "U+0E57", "U+0E58", "U+0E59">>,
     <<"U+0ED0", "U+0ED1", "U+0ED2", "U+0ED3", "U+0ED4", "U+0ED5", "U+0ED6", "U+0ED7", "U+0ED8", "U+0ED9">>,
     <<"U+0F20", "U+0F21", "U+0F22", "U+0F23", "U+0F24", "U+0F25", "U+0F26", "U+0F27", "U+0F28", "U+0F29">>,
     <<"U+1040", "U+1041", "U+1042", "U+1043", "U+1044", "U+1045", "U+1046", "U+1047", "U+1048", "U+1049">>,
     <<"U+1090", "U+1091", "U+1092", "U+1093", "U+1094", "U+1095", "U+1096", "U+1097", "U+1098", "U+1099">>,
     <<"U+17E0", "U+17E1", "U+17E2", "U+17E3", "U+17E4", "U+17E5", "U+17E6", "U+17E7", "U+17E8", "U+17E9">>,
     <<"U+1810", "U+1811", "U+1812", "U+1813", "U+1814", "U+1815", "U+1816", "U+1817", "U+1818", "U+1819">>,
     <<"U+1946", "U+1947", "U+1948", "U+1949", "U+194A", "U+194B", "U+194C", "U+194D", "U+194E", "U+194F">>,
     <<"U+19D0", "U+19D1", "U+19D2", "U+19D3", "U+19D4", "U+19D5", "U+19D6", "U+19D7", "U+19D8", "U+19D9">>,
     <<"U+1A80", "U+1A81", "U+1A82", "U+1A83", "U+1A84", "U+1A85", "U+1A86", "U+1A87", "U+1A88", "U+1A89">>,
     <<"U+1A90", "U+1A91", "U+1A92", "U+1A93", "U+1A94", "U+1A95", "U+1A96", "U+1A97", "U+1A98", "U+1A99">>,
     <<"U+1B50", "U+1B51", "U+1B52", "U+1B53", "U+1B54", "U+1B55", "U+1B56", "U+1B57", "U+1B58", "U+1B59">>,
     <<"U+1BB0", "U+1BB1", "U+1BB2", "U+1BB3", "U+1BB4", "U+1BB5", "U+1BB6", "U+1BB7", "U+1BB8", "U+1BB9">>,
     <<"U+1C40", "U+1C41", "U+1C42", "U+1C43", "U+1C44", "U+1C45", "U+1C46", "U+1C47", "U+1C48", "U+1C49">>,
     <<"U+1C50", "U+1C51", "U+1C52", "U+1C53", "U+1C54", "U+1C55", "U+1C56", "U+1C57", "U+1C58", "U+1C59">>,
     <<"U+A620", "U+A621", "U+A622", "U+A623", "U+A624", "U+A625", "U+A626", "U+A627", "U+A628", "U+A629">>,
     <<"U+A8D0", "U+A8D1", "U+A8D2", "U+A8D3", "U+A8D4", "U+A8D5", "U+A8D6", "U+A8D7", "U+A8D8", "U+A8D9">>,
     <<"U+A900", "U+A901", "U+A902", "U+A903", "U+A904", "U+A905", "U+A906", "U+A907", "U+A908", "U+A909">>,
     <<"U+A9D0", "U+A9D1", "U+A9D2", "U+A9D3", "U+A9D4", "U+A9D5", "U+A9D6", "U+A9D7", "U+A9D8", "U+A9D9">>,
     <<"U+A9F0", "U+A9F1", "U+A9F2", "U+A9F3", "U+A9F4", "U+A9F5", "U+A9F6", "U+A9F7", "U+A9F8", "U+A9F9">>,
     <<"U+AA50", "U+AA51", "U+AA52", "U+AA53", "U+AA54", "U+AA55", "U+AA56", "U+AA57", "U+AA58", "U+AA59">>,
     <<"U+ABF0", "U+ABF1", "U+ABF2", "U+ABF3", "U+ABF4", "U+ABF5", "U+ABF6", "U+ABF7", "U+ABF8", "U+ABF9">>,
     <<"U+FF10", "U+FF11", "U+FF12", "U+FF13", "U+FF14", "U+FF15", "U+FF16", "U+FF17", "U+FF18", "U+FF19">>,
     <<"U+104A0", "U+104A1", "U+104A2", "U+104A3", "U+104A4", "U+104A5", "U+104A6", "U+104A7", "U+104A8", "U+104A9">>,
     <<"U+10D30", "U+10D31", "U+10D32", "U+10D33", "U+10D34", "U+10D35", "U+10D36", "U+10D37", "U+10D38", "U+10D39">>,
     <<"U+11066", "U+11067", "U+11068", "U+11069", "U+1106A", "U+1106B", "U+1106C", "U+1106D", "U+1106E", "U+1106F">>,
     <<"U+110F0", "U+110F1", "U+110F2", "U+110F3", "U+110F4", "U+110F5", "U+110F6", "U+110F7", "U+110F8", "U+110F9">>,
     <<"U+11136", "U+11137", "U+11138", "U+11139", "U+1113A", "U+1113B", "U+1113C", "U+1113D", "U+1113E", "U+1113F">>,
     <<"U+111D0", "U+111D1", "U+111D2", "U+111D3", "U+111D4", "U+111D5", "U+111D6", "U+111D7", "U+111D8", "U+111D9">>,
     <<"U+112F0", "U+112F1", "U+112F2", "U+112F3", "U+112F4", "U+112F5", "U+112F6", "U+112F7", "U+112F8", "U+112F9">>,
     <<"U+11450", "U+11451", "U+11452", "U+11453", "U+11454", "U+11455", "U+11456", "U+11457", "U+11458", "U+11459">>,
     <<"U+114D0", "U+114D1", "U+114D2", "U+114D3", "U+114D4", "U+114D5", "U+114D6", "U+114D7", "U+114D8", "U+114D9">>,
     <<"U+11650", "U+11651", "U+11652", "U+11653", "U+11654", "U+11655", "U+11656", "U+11657", "U+11658", "U+11659">>,
     <<"U+116C0", "U+116C1", "U+116C2", "U+116C3", "U+116C4", "U+116C5", "U+116C6", "U+116C7", "U+116C8", "U+116C9">>,
     <<"U+11730", "U+11731", "U+11732", "U+11733", "U+11734", "U+11735", "U+11736", "U+11737", "U+11738", "U+11739">>,
     <<"U+118E0", "U+118E1", "U+118E2", "U+118E3", "U+118E4", "U+118E5", "U+118E6", "U+118E7", "U+118E8", "U+118E9">>,
     <<"U+11950", "U+11951", "U+11952", "U+11953", "U+11954", "U+11955", "U+11956", "U+11957", "U+11958", "U+11959">>,
     <<"U+11C50", "U+11C51", "U+11C52", "U+11C53", "U+11C54", "U+11C55", "U+11C56", "U+11C57", "U+11C58", "U+11C59">>,
     <<"U+11D50", "U+11D51", "U+11D52", "U+11D53", "U+11D54", "U+11D55", "U+11D56", "U+11D57", "U+11D58", "U+11D59">>,
     <<"U+11DA0", "U+11DA1", "U+11DA2", "U+11DA3", "U+11DA4", "U+11DA5", "U+11DA6", "U+11DA7", "U+11DA8", "U+11DA9">>,
     <<"U+16A60", "U+16A61", "U+16A62", "U+16A63", "U+16A64", "U+16A65", "U+16A66", "U+16A67", "U+16A68", "U+16A69">>,
     <<"U+16AC0", "U+16AC1", "U+16AC2", "U+16AC3", "U+16AC4", "U+16AC5", "U+16AC6", "U+16AC7", "U+16AC8", "U+16AC9">>,
     <<"U+16B50", "U+16B51", "U+16B52", "U+16B53", "U+16B54", "U+16B55", "U+16B56", "U+16B57", "U+16B58", "U+16B59">>,
     <<"U+1D7CE", "U+1D7CF", "U+1D7D0", "U+1D7D1", "U+1D7D2", "U+1D7D3", "U+1D7D4", "U+1D7D5", "U+1D7D6", "U+1D7D7">>,
     <<"U+1D7D8", "U+1D7D9", "U+1D7DA", "U+1D7DB", "U+1D7DC", "U+1D7DD", "U+1D7DE", "U+1D7DF", "U+1D7E0", "U+1D7E1">>,
     <<"U+1D7E2", "U+1D7E3", "U+1D7E4", "U+1D7E5", "U+1D7E6", "U+1D7E7", "U+1D7E8", "U+1D7E9", "U+1D7EA", "U+1D7EB">>,
     <<"U+1D7EC", "U+1D7ED", "U+1D7EE", "U+1D7EF", "U+1D7F0", "U+1D7F1", "U+1D7F2", "U+1D7F3", "U+1D7F4", "U+1D7F5">>,
     <<"U+1D7F6", "U+1D7F7", "U+1D7F8", "U+1D7F9", "U+1D7FA", "U+1D7FB", "U+1D7FC", "U+1D7FD", "U+1D7FE", "U+1D7FF">>,
     <<"U+1E140", "U+1E141", "U+1E142", "U+1E143", "U+1E144", "U+1E145", "U+1E146", "U+1E147", "U+1E148", "U+1E149">>,
     <<"U+1E2F0", "U+1E2F1", "U+1E2F2", "U+1E2F3", "U+1E2F4", "U+1E2F5", "U+1E2F6", "U+1E2F7", "U+1E2F8", "U+1E2F9">>,
     <<"U+1E950", "U+1E951", "U+1E952", "U+1E953", "U+1E954", "U+1E955", "U+1E956", "U+1E957", "U+1E958", "U+1E959">>,
     <<"U+1FBF0", "U+1FBF1", "U+1FBF2", "U+1FBF3", "U+1FBF4", "U+1FBF5", "U+1FBF6", "U+1FBF7", "U+1FBF8", "U+1FBF9">>}

\* \d of a str pattern: any decimal digit of Unicode.
DigitChars == {row[k] : row \in DigitRows, k \in 1..10}

DigitValue == [c \in DigitChars |-> (CHOOSE k \in 1..10 : \E row \in DigitRows : row[k] = c) - 1]

\* The value of a decimal digit (int(c), Py_UNICODE_TODECIMAL).
DigitVal(c) == DigitValue[c]

DigitChar(d) == <<"0", "1", "2", "3", "4", "5", "6", "7", "8", "9">>[d + 1]

\* Whitespace: \s of a str pattern, the characters that str.strip removes
\* and that Decimal skips around a number (str.isspace).
SpaceChars ==
    {"\t", "\n", "U+000B", "\f", "\r", "U+001C", "U+001D", "U+001E", "U+001F", " ",
     "U+0085", "U+00A0", "U+1680", "U+2000", "U+2001", "U+2002", "U+2003", "U+2004",
     "U+2005", "U+2006", "U+2007", "U+2008", "U+2009", "U+200A", "U+2028", "U+2029",
     "U+202F", "U+205F", "U+3000"}

AsciiChars ==
    {"U+0000", "U+0001", "U+0002", "U+0003", "U+0004", "U+0005", "U+0006", "U+0007",
     "U+0008", "\t", "\n", "U+000B", "\f", "\r", "U+000E", "U+000F", "U+0010", "U+0011",
     "U+0012", "U+0013", "U+0014", "U+0015", "U+0016", "U+0017", "U+0018", "U+0019",
     "U+001A", "U+001B", "U+001C", "U+001D", "U+001E", "U+001F", " ", "!", "\"", "#", "$",
     "%", "&", "'", "(", ")", "*", "+", ",", "-", ".", "/", "0", "1", "2", "3", "4", "5",
     "6", "7", "8", "9", ":", ";", "<", "=", ">", "?", "@", "A", "B", "C", "D", "E", "F",
     "G", "H", "I", "J", "K", "L", "M", "N", "O", "P", "Q", "R", "S", "T", "U", "V", "W",
     "X", "Y", "Z", "[", "\\", "]", "^", "_", "U+0060", "a", "b", "c", "d", "e", "f", "g", "h",
     "i", "j", "k", "l", "m", "n", "o", "p", "q", "r", "s", "t", "u", "v", "w", "x", "y",
     "z", "{", "|", "}", "~", "U+007F"}

Latin1Chars ==
    {"U+0080", "U+0081", "U+0082", "U+0083", "U+0084", "U+0085", "U+0086", "U+0087",
     "U+0088", "U+0089", "U+008A", "U+008B", "U+008C", "U+008D", "U+008E", "U+008F",
     "U+0090", "U+0091", "U+0092", "U+0093", "U+0094", "U+0095", "U+0096", "U+0097",
     "U+0098", "U+0099", "U+009A", "U+009B", "U+009C", "U+009D", "U+009E", "U+009F",
     "U+00A0", "U+00A1", "U+00A2", "U+00A3", "U+00A4", "U+00A5", "U+00A6", "U+00A7",
     "U+00A8", "U+00A9", "U+00AA", "U+00AB", "U+00AC", "U+00AD", "U+00AE", "U+00AF",
     "U+00B0", "U+00B1", "U+00B2", "U+00B3", "U+00B4", "U+00B5", "U+00B6", "U+00B7",
     "U+00B8", "U+00B9", "U+00BA", "U+00BB", "U+00BC", "U+00BD", "U+00BE", "U+00BF",
     "U+00C0", "U+00C1", "U+00C2", "U+00C3", "U+00C4", "U+00C5", "U+00C6", "U+00C7",
     "U+00C8", "U+00C9", "U+00CA", "U+00CB", "U+00CC", "U+00CD", "U+00CE", "U+00CF",
     "U+00D0", "U+00D1", "U+00D2", "U+00D3", "U+00D4", "U+00D5", "U+00D6", "U+00D7",
     "U+00D8", "U+00D9", "U+00DA", "U+00DB", "U+00DC", "U+00DD", "U+00DE", "U+00DF",
     "U+00E0", "U+00E1", "U+00E2", "U+00E3", "U+00E4", "U+00E5", "U+00E6", "U+00E7",
     "U+00E8", "U+00E9", "U+00EA", "U+00EB", "U+00EC", "U+00ED", "U+00EE", "U+00EF",
     "U+00F0", "U+00F1", "U+00F2", "U+00F3", "U+00F4", "U+00F5", "U+00F6", "U+00F7",
     "U+00F8", "U+00F9", "U+00FA", "U+00FB", "U+00FC", "U+00FD", "U+00FE", "U+00FF"}

\* The characters that the model tells apart: ASCII, Latin-1, and all the
\* whitespace and decimal digits of Unicode.  A text with any other
\* character is outside the model (Unsupported), because \w and str.lower
\* are written out for these characters only.
Alphabet == AsciiChars \cup Latin1Chars \cup SpaceChars \cup DigitChars

InAlphabet(s) == \A i \in 1..Len(s) : s[i] \in Alphabet

\* \w of a str pattern within the alphabet: the letters and digits of
\* Unicode (str.isalnum) and the underscore.
WordChars ==
    DigitChars \cup
    {"a", "b", "c", "d", "e", "f", "g", "h", "i", "j", "k", "l", "m", "n", "o", "p", "q",
     "r", "s", "t", "u", "v", "w", "x", "y", "z", "A", "B", "C", "D", "E", "F", "G", "H",
     "I", "J", "K", "L", "M", "N", "O", "P", "Q", "R", "S", "T", "U", "V", "W", "X", "Y",
     "Z", "_", "U+00AA", "U+00B2", "U+00B3", "U+00B5", "U+00B9", "U+00BA", "U+00BC",
     "U+00BD", "U+00BE", "U+00C0", "U+00C1", "U+00C2", "U+00C3", "U+00C4", "U+00C5",
     "U+00C6", "U+00C7", "U+00C8", "U+00C9", "U+00CA", "U+00CB", "U+00CC", "U+00CD",
     "U+00CE", "U+00CF", "U+00D0", "U+00D1", "U+00D2", "U+00D3", "U+00D4", "U+00D5",
     "U+00D6", "U+00D8", "U+00D9", "U+00DA", "U+00DB", "U+00DC", "U+00DD", "U+00DE",
     "U+00DF", "U+00E0", "U+00E1", "U+00E2", "U+00E3", "U+00E4", "U+00E5", "U+00E6",
     "U+00E7", "U+00E8", "U+00E9", "U+00EA", "U+00EB", "U+00EC", "U+00ED", "U+00EE",
     "U+00EF", "U+00F0", "U+00F1", "U+00F2", "U+00F3", "U+00F4", "U+00F5", "U+00F6",
     "U+00F8", "U+00F9", "U+00FA", "U+00FB", "U+00FC", "U+00FD", "U+00FE", "U+00FF"}

\* The characters of the alphabet that str.lower changes, each with its
\* lower-case form.
LowerPairs ==
    {<<"A", "a">>, <<"B", "b">>, <<"C", "c">>, <<"D", "d">>, <<"E", "e">>, <<"F", "f">>,
     <<"G", "g">>, <<"H", "h">>, <<"I", "i">>, <<"J", "j">>, <<"K", "k">>, <<"L", "l">>,
     <<"M", "m">>, <<"N", "n">>, <<"O", "o">>, <<"P", "p">>, <<"Q", "q">>, <<"R", "r">>,
     <<"S", "s">>, <<"T", "t">>, <<"U", "u">>, <<"V", "v">>, <<"W", "w">>, <<"X", "x">>,
     <<"Y", "y">>, <<"Z", "z">>, <<"U+00C0", "U+00E0">>, <<"U+00C1", "U+00E1">>,
     <<"U+00C2", "U+00E2">>, <<"U+00C3", "U+00E3">>, <<"U+00C4", "U+00E4">>,
     <<"U+00C5", "U+00E5">>, <<"U+00C6", "U+00E6">>, <<"U+00C7", "U+00E7">>,
     <<"U+00C8", "U+00E8">>, <<"U+00C9", "U+00E9">>, <<"U+00CA", "U+00EA">>,
     <<"U+00CB", "U+00EB">>, <<"U+00CC", "U+00EC">>, <<"U+00CD", "U+00ED">>,
     <<"U+00CE", "U+00EE">>, <<"U+00CF", "U+00EF">>, <<"U+00D0", "U+00F0">>,
     <<"U+00D1", "U+00F1">>, <<"U+00D2", "U+00F2">>, <<"U+00D3", "U+00F3">>,
     <<"U+00D4", "U+00F4">>, <<"U+00D5", "U+00F5">>, <<"U+00D6", "U+00F6">>,
     <<"U+00D8", "U+00F8">>, <<"U+00D9", "U+00F9">>, <<"U+00DA", "U+00FA">>,
     <<"U+00DB", "U+00FB">>, <<"U+00DC", "U+00FC">>, <<"U+00DD", "U+00FD">>,
     <<"U+00DE", "U+00FE">>}

\* str.lower of one character of the alphabet.
LowerChar(c) ==
    IF \E p \in LowerPairs : p[1] = c THEN (CHOOSE p \in LowerPairs : p[1] = c)[2] ELSE c

\* str.lower
Lower(s) == [i \in 1..Len(s) |-> LowerChar(s[i])]

\* The character class of safe_pattern: space, the decimal digits (\d),
\* point, the four operator characters and the parentheses.
SafeChars == DigitChars \cup {" ", ".", "+", "-", "*", "/", "(", ")"}

At(s, i) == IF i >= 1 /\ i <= Len(s) THEN s[i] ELSE ""

\* The first index from i on whose character is not in set (Len(s) + 1 if none).
RunEnd(s, i, set) ==
    LET stop == {j \in i..Len(s) : s[j] \notin set}
    IN  IF stop = {} THEN Max2(i, Len(s) + 1) ELSE SetMin(stop)

\* s[i..j-1], cut to the string.
Sub(s, i, j) == IF i > Len(s) THEN <<>> ELSE SubSeq(s, i, Min2(j - 1, Len(s)))

DigitsOf(s) == Tup([i \in 1..Len(s) |-> DigitVal(s[i])], Len(s))

CharsOf(d) == Tup([i \in 1..Len(d) |-> DigitChar(d[i])], Len(d))

(***************************************************************************)
(* eval(expression, {"__builtins__": {}}, {}) on a string of the           *)
(* characters that safe_pattern lets through: Python's tokenizer (longest  *)
(* match: ** and // are single tokens; a number is made of the digits 0 to *)
(* 9, any other decimal digit is an invalid character), its expression     *)
(* grammar, and its evaluation order.  A string with any other character   *)
(* is outside the model.  The limits of the interpreter are part of eval:  *)
(* the tokenizer's nesting limit, the parser's stack and the recursion     *)
(* limit of the compiler.                                                  *)
(***************************************************************************)
Tok(k, v) == [k |-> k, v |-> v]

IsOp(t, i, ops) == i <= Len(t) /\ t[i].k = "op" /\ t[i].v \in ops

\* The longest integer literal the compiler converts
\* (sys.int_info.default_max_str_digits).
MaxStrDigits == 4300

\* A number literal starting at s[i]: <<token, next index>>.  An integer
\* literal with a leading zero that is not all zeros is a syntax error, and
\* so is one of more than MaxStrDigits digits; a literal with a point is a
\* float, correctly rounded from its decimal text.
NumberToken(s, i) ==
    LET j    == RunEnd(s, i, AsciiDigits)
        int  == Sub(s, i, j)
        k    == RunEnd(s, j + 1, AsciiDigits)
        frac == Sub(s, j + 1, k)
    IN  IF At(s, j) = "."
        THEN <<Tok("num", Rounded(Exact(FALSE, BFromDigits(DigitsOf(int \o frac)),
                                        BMulPow10(<<1>>, Len(frac)), 0, FALSE),
                                  Unsupported)), k>>
        ELSE IF Len(int) > 1 /\ int[1] = "0" /\ \E x \in 1..Len(int) : int[x] # "0"
             THEN <<Tok("bad", "leading zeros"), j>>
        ELSE IF Len(int) > MaxStrDigits /\ \E x \in 1..Len(int) : int[x] # "0"
             THEN <<Tok("bad", "too many digits"), j>>
        ELSE <<Tok("num", PyInt(FALSE, BFromDigits(DigitsOf(int)))), j>>

\* The deepest nesting of parentheses the tokenizer accepts (MAXLEVEL).
MaxLevel == 200

\* The parentheses that s[1..i] opens and does not close.
Opened(s, i) ==
    Cardinality({j \in 1..i : s[j] = "("}) - Cardinality({j \in 1..i : s[j] = ")"})

RECURSIVE TokenizeGo(_, _, _)
\* The tokens of s from s[i] on, after the tokens acc; the first token that
\* is an error is the last one.  A run of equal signs or of opening
\* parentheses is taken at once, each character a token: the parenthesis
\* that would be nested deeper than MaxLevel is an error, and so is a
\* closing parenthesis that closes nothing.
TokenizeGo(s, i, acc) ==
    LET c    == At(s, i)
        next == At(s, i + 1)
        Number(n) == TokenizeGo(s, n[2], Append(acc, n[1]))
        Run(j, room) ==
            LET run == acc \o [x \in 1..Min2(j - i, room) |-> Tok("op", c)]
            IN  IF j - i > room
                THEN Append(run, Tok("bad", "too many nested parentheses"))
                ELSE TokenizeGo(s, j, run)
    IN  CASE i > Len(s) -> acc
          [] c \in {" ", "\t", "\f"} -> TokenizeGo(s, RunEnd(s, i, {" ", "\t", "\f"}), acc)
          [] c = "\n" /\ i = Len(s) -> acc
          [] c \in AsciiDigits \/ (c = "." /\ next \in AsciiDigits) -> Number(NumberToken(s, i))
          [] c = "." /\ next = "." /\ At(s, i + 2) = "." ->
                TokenizeGo(s, i + 3, Append(acc, Tok("op", "...")))
          [] c \in {"*", "/"} /\ next = c ->
                TokenizeGo(s, i + 2, Append(acc, Tok("op", IF c = "*" THEN "**" ELSE "//")))
          [] c = "(" -> Run(RunEnd(s, i, {"("}), MaxLevel - Opened(s, i - 1))
          [] c \in {"+", "-"} -> Run(RunEnd(s, i, {c}), Len(s))
          [] c = ")" /\ Opened(s, i - 1) = 0 -> Append(acc, Tok("bad", "unmatched parenthesis"))
          [] \/ c \in {"*", "/"} /\ next # c
             \/ c = ")" /\ Opened(s, i - 1) > 0
             \/ c = "." /\ next \notin AsciiDigits /\ ~(next = "." /\ At(s, i + 2) = ".") ->
                TokenizeGo(s, i + 1, Append(acc, Tok("op", c)))
          [] OTHER -> Append(acc, Tok("bad", c))

Tokenize(s) == TokenizeGo(s, 1, <<>>)

\* The result of parsing: the syntax tree a and the index i of the next token.
Parsed(a, i) == [ok |-> TRUE, a |-> a, i |-> i]

NoParse == [ok |-> FALSE, a |-> <<>>, i |-> 0]

\* The binary operation of two parsed operands.
Binary(op, l, r) == IF l.ok /\ r.ok THEN Parsed(<<"bin", op, l.a, r.a>>, r.i) ELSE NoParse

RECURSIVE ParseSum(_, _), SumRest(_, _), ParseTerm(_, _), TermRest(_, _)
RECURSIVE ParseFactor(_, _), ParsePower(_, _), CallRest(_, _, _), ParseAtom(_, _)

\* sum: sum ('+' | '-') term | term
ParseSum(t, i) == SumRest(t, ParseTerm(t, i))

\* The sum that continues the parsed left operand l.
SumRest(t, l) ==
    IF l.ok /\ IsOp(t, l.i, {"+", "-"})
    THEN SumRest(t, Binary(t[l.i].v, l, ParseTerm(t, l.i + 1)))
    ELSE l

\* term: term ('*' | '/' | '//') factor | factor
ParseTerm(t, i) == TermRest(t, ParseFactor(t, i))

TermRest(t, l) ==
    IF l.ok /\ IsOp(t, l.i, {"*", "/", "//"})
    THEN TermRest(t, Binary(t[l.i].v, l, ParseFactor(t, l.i + 1)))
    ELSE l

\* factor: ('+' | '-') factor | power
ParseFactor(t, i) ==
    IF IsOp(t, i, {"+", "-"})
    THEN LET f == ParseFactor(t, i + 1)
         IN  IF f.ok THEN Parsed(<<"un", t[i].v, f.a>>, f.i) ELSE NoParse
    ELSE ParsePower(t, i)

\* power: primary ['**' factor]
ParsePower(t, i) ==
    LET Primary(a) == IF a.ok THEN CallRest(t, a.i, a.a) ELSE NoParse
        Power(p) ==
            IF p.ok /\ IsOp(t, p.i, {"**"}) THEN Binary("**", p, ParseFactor(t, p.i + 1)) ELSE p
    IN  Power(Primary(ParseAtom(t, i)))

\* primary: primary '(' [argument] ')' | atom, with argument one of
\* expression, '*' expression, '**' expression (no comma in the alphabet).
CallRest(t, i, f) ==
    IF ~IsOp(t, i, {"("}) THEN Parsed(f, i)
    ELSE IF IsOp(t, i + 1, {")"}) THEN CallRest(t, i + 2, <<"call", f, "none", <<"tuple">>>>)
    ELSE LET star == IF IsOp(t, i + 1, {"*", "**"}) THEN t[i + 1].v ELSE ""
             e    == ParseSum(t, IF star = "" THEN i + 1 ELSE i + 2)
         IN  IF e.ok /\ IsOp(t, e.i, {")"})
             THEN CallRest(t, e.i + 1, <<"call", f, star, e.a>>)
             ELSE NoParse

\* atom: NUMBER | '...' | '(' ')' | '(' expression ')'; the tree keeps the
\* group, which costs the parser stack and is no node of the syntax tree.
ParseAtom(t, i) ==
    IF i > Len(t) THEN NoParse
    ELSE IF t[i].k = "num" THEN Parsed(<<"num", t[i].v>>, i + 1)
    ELSE IF IsOp(t, i, {"..."}) THEN Parsed(<<"ellipsis">>, i + 1)
    ELSE IF IsOp(t, i, {"("})
         THEN IF IsOp(t, i + 1, {")"}) THEN Parsed(<<"tuple">>, i + 2)
              ELSE LET e == ParseSum(t, i + 1)
                   IN  IF e.ok /\ IsOp(t, e.i, {")"})
                       THEN Parsed(<<"grp", e.a>>, e.i + 1)
                       ELSE NoParse
    ELSE NoParse

RECURSIVE Evaluate(_)
\* The value of a syntax tree, operands left to right, the first exception
\* raised ending the evaluation.  Calling any of these objects is a TypeError.
Evaluate(a) ==
    CASE a[1] = "num"      -> a[2]
      [] a[1] = "tuple"    -> Obj("tuple", FALSE, <<>>, 0)
      [] a[1] = "ellipsis" -> Obj("ellipsis", FALSE, <<>>, 0)
      [] a[1] = "grp"      -> Evaluate(a[2])
      [] a[1] = "un"       -> LET v == Evaluate(a[3])
                              IN  IF IsValue(v) THEN PyUnaryOp(a[2], v) ELSE v
      [] a[1] = "bin"      -> LET l == Evaluate(a[3])
                              IN  IF ~IsValue(l) THEN l
                                  ELSE LET r == Evaluate(a[4])
                                       IN  IF IsValue(r) THEN PyBinOp(a[2], l, r) ELSE r
      [] a[1] = "call"     -> LET f == Evaluate(a[2])
                              IN  IF ~IsValue(f) THEN f
                                  ELSE LET x == Evaluate(a[4])
                                       IN  IF IsValue(x) THEN Raise("TypeError") ELSE x

\* The size of the parser's stack of rule invocations (MAXSTACK), and the
\* part of it in use when the parser reaches a number that is the whole
\* expression.
MaxStack == 6000

AtomStack == 24

RECURSIVE StackCost(_)
\* The stack that the parser needs for the tree a beyond AtomStack: the
\* deepest chain of rule invocations to one of its leaves.  A group or an
\* argument list descends through the whole expression grammar again, a
\* sign or the exponent of a power through a rule that invokes itself; the
\* left-recursive rules of sum, term and primary hold their left operand
\* at no cost.
StackCost(a) ==
    CASE a[1] \in {"num", "ellipsis"} -> 0
      [] a[1] = "tuple" -> 28
      [] a[1] = "grp"   -> 28 + StackCost(a[2])
      [] a[1] = "un"    -> 1 + StackCost(a[3])
      [] a[1] = "bin"   -> Max2(StackCost(a[3]),
                                (IF a[2] = "**" THEN 2 ELSE 0) + StackCost(a[4]))
      [] a[1] = "call"  -> Max2(StackCost(a[2]),
                                CASE a[3] = "none" -> 24
                                  [] a[3] = ""     -> 24 + StackCost(a[4])
                                  [] OTHER         -> 27 + StackCost(a[4]))

RECURSIVE ExprDepth(_)
\* The depth of the syntax tree of a: a group is no node, a starred
\* argument is one.
ExprDepth(a) ==
    CASE a[1] \in {"num", "tuple", "ellipsis"} -> 1
      [] a[1] = "grp"   -> ExprDepth(a[2])
      [] a[1] = "un"    -> 1 + ExprDepth(a[3])
      [] a[1] = "bin"   -> 1 + Max2(ExprDepth(a[3]), ExprDepth(a[4]))
      [] a[1] = "call"  -> 1 + Max2(ExprDepth(a[2]),
                                    CASE a[3] = "none" -> 0
                                      [] a[3] = "*"    -> 1 + ExprDepth(a[4])
                                      [] OTHER         -> ExprDepth(a[4]))

\* sys.getrecursionlimit(), which the program leaves at its default.
RecursionLimit == 1000

\* The Python frames that may be in use when eval is called, the caller's
\* included: the handler runs below the dispatcher and the event loop, at
\* a depth that the program does not fix.
MaxCallDepth == 300

CallDepths == 1..MaxCallDepth

\* The compiler gives up on a tree of depth d, called with p frames in use,
\* when d + 3p exceeds three times the recursion limit.
TooDeep(d, p) == d + 3 * p > 3 * RecursionLimit

\* The value of the parsed expression a: MemoryError when the parser's stack
\* overflows, RecursionError when the compiler gives up at every depth of
\* the caller; a tree that compiles at some depths only is outside the
\* model.
EvalTree(a) ==
    LET d == ExprDepth(a)
    IN  IF AtomStack + StackCost(a) >= MaxStack THEN Raise("MemoryError")
        ELSE IF \A p \in CallDepths : TooDeep(d, p) THEN Raise("RecursionError")
        ELSE IF \E p \in CallDepths : TooDeep(d, p) THEN Unsupported
        ELSE Evaluate(a)

\* The tokens of t that are one of ops.
CountOps(t, ops) == Cardinality({i \in 1..Len(t) : t[i].k = "op" /\ t[i].v \in ops})

\* An upper bound of the stack that the parser uses on tokens that are no
\* expression, when it goes through them a second time to report the error.
StackBound(t) == 30 * (1 + CountOps(t, {"("})) + CountOps(t, {"+", "-"}) + 2 * CountOps(t, {"**"})

\* The exception for tokens t that are no expression: SyntaxError where the
\* parser's stack is sure to hold; past that bound the outcome (SyntaxError
\* or MemoryError) is outside the model.
NoExpression(t) == IF StackBound(t) < MaxStack THEN Raise("SyntaxError") ELSE Unsupported

\* The stack that the parser descends, below a sign, to the rule that asks
\* for the next token.
SignStack == 19

\* The exception for tokens t that end with a parenthesis nested too deep.
\* The tokenizer reports it when the parser asks for that token, which it
\* does when all the tokens before are opening parentheses and signs,
\* unless its stack overflows first: every parenthesis and every sign
\* before holds its part of the stack, and after a sign the parser is
\* SignStack deeper when it asks.  After other tokens the outcome is
\* outside the model.
TooNested(t) ==
    LET n     == Len(t) - 1
        signs == CountOps(t, {"+", "-"})
        stack == 28 * MaxLevel + signs + (IF n >= 1 /\ IsOp(t, n, {"+", "-"}) THEN SignStack ELSE 0)
    IN  IF CountOps(t, {"("}) + signs < n THEN Unsupported
        ELSE IF stack >= MaxStack THEN Raise("MemoryError")
        ELSE Raise("SyntaxError")

\* The value of the expression that a parse p of all n tokens t found.
EvalParsed(t, p, n) == IF p.ok /\ p.i = n + 1 THEN EvalTree(p.a) ELSE NoExpression(t)

\* The value of the expression that the tokens t spell.
EvalTokens(t) ==
    LET n == Len(t)
        TokenErrors == {"leading zeros", "too many digits", "unmatched parenthesis"}
    IN  IF n = 0 \/ t[n].k # "bad" THEN EvalParsed(t, ParseSum(t, 1), n)
        ELSE IF t[n].v = "too many nested parentheses" THEN TooNested(t)
        ELSE IF t[n].v \in SafeChars \cup TokenErrors THEN NoExpression(t)
        ELSE Unsupported

\* eval(s): SyntaxError unless the whole token sequence is one expression.
PyEval(s) == EvalTokens(Tokenize(s))

(***************************************************************************)
(* decimal.Decimal under getcontext().prec = 18 (ROUND_HALF_EVEN, the      *)
(* default traps, Emin = -999999).  A finite Decimal is                    *)
(* Obj("dec", neg, c, exp): the value (-1)^neg * c * 10^exp, with the      *)
(* coefficient c kept as written (trailing zeros are significant).  An     *)
(* infinity is Obj("inf", neg, 0, 0); a quiet NaN is Obj("nan", neg, p, 0) *)
(* and a signaling NaN Obj("snan", neg, p, 0), p the payload.  A trapped   *)
(* signal is Raise(its class name).                                        *)
(***************************************************************************)
Prec == 18

\* The exponent of the smallest subnormal: Emin - Prec + 1.
Etiny == (0 - 999999) - Prec + 1

Dec(neg, c, exp) == Obj("dec", neg, c, exp)

Infinity(neg) == Obj("inf", neg, <<>>, 0)

IsDec(d) == d.t \in {"dec", "nan", "snan", "inf"}

IsFinite(d) == d.t = "dec"

IsNaN(d) == d.t \in {"nan", "snan"}

IsZero(d) == d.t = "dec" /\ d.m = <<>>

\* c without its last k >= 1 decimal digits, rounded half-even.
DropDigits(c, k) ==
    LET Up(d, sticky) == d[2] > 5 \/ (d[2] = 5 /\ (sticky \/ BIsOdd(d[1])))
        HalfEven(d, sticky) == IF Up(d, sticky) THEN BAdd(d[1], <<1>>) ELSE d[1]
        Last(p) == HalfEven(BDivSmall(p[1], 10), p[2])
    IN  Last(BDivPow10(c, k - 1))

\* Decimal._fix: round a result to Prec significant digits; the exponent of
\* a zero is at least Etiny.
DFix(d) ==
    LET over == BNumDigits(d.m) - Prec
        Fit(c) == IF BNumDigits(c) > Prec
                  THEN Dec(d.neg, BDivSmall(c, 10)[1], d.e + over + 1)
                  ELSE Dec(d.neg, c, d.e + over)
    IN  IF d.m = <<>> THEN Dec(d.neg, <<>>, Max2(d.e, Etiny))
        ELSE IF over <= 0 THEN d
        ELSE Fit(DropDigits(d.m, over))

\* The result of an operation with a NaN operand: a signaling NaN signals
\* InvalidOperation; otherwise the result is the first operand that is a
\* NaN, with its sign, its payload cut to the last Prec digits.
NaNResult(x, y) ==
    LET Cut(ds) == BFromDigits(IF Len(ds) > Prec THEN SubSeq(ds, Len(ds) - Prec + 1, Len(ds))
                               ELSE ds)
        Quiet(n) == Obj("nan", n.neg, Cut(BDigits(n.m)), 0)
    IN  IF x.t = "snan" \/ y.t = "snan" THEN Raise("InvalidOperation")
        ELSE Quiet(IF x.t = "nan" THEN x ELSE y)

\* Number of trailing decimal zeros of c > 0.
TrailingZeros(c) ==
    LET Count(d) == Len(d) - SetMax({i \in 1..Len(d) : d[i] # 0})
    IN  Count(BDigits(c))

\* Decimal.__mul__: infinity times zero signals InvalidOperation.
DMul(x, y) ==
    IF IsNaN(x) \/ IsNaN(y) THEN NaNResult(x, y)
    ELSE IF x.t = "inf" \/ y.t = "inf"
    THEN (IF IsZero(x) \/ IsZero(y) THEN Raise("InvalidOperation")
          ELSE Infinity(x.neg # y.neg))
    ELSE DFix(Dec(x.neg # y.neg, BMul(x.m, y.m), x.e + y.e))

\* Decimal.__truediv__: 0 / 0 signals InvalidOperation (division undefined),
\* x / 0 signals DivisionByZero, a subclass of ZeroDivisionError; infinity
\* by infinity signals InvalidOperation, infinity by a finite number is an
\* infinity, a finite number by infinity is a zero of exponent Etiny.  The
\* operands are scaled so that the integer quotient has Prec + 1 or Prec + 2
\* digits; an inexact quotient ending in 0 or 5 gets 1 added before the
\* rounding, an exact one gives back the zeros that the scaling added.
DDiv(x, y) ==
    LET neg   == x.neg # y.neg
        shift == BNumDigits(y.m) - BNumDigits(x.m) + Prec + 1
        exp   == x.e - y.e - shift
        Trim(q, z) == Dec(neg, BDivPow10(q, z)[1], exp + z)
        Quot(qr) ==
            IF qr[2] # <<>>
            THEN Dec(neg, IF qr[1] = <<>> \/ qr[1][Len(qr[1])] % 5 = 0
                          THEN BAdd(qr[1], <<1>>) ELSE qr[1], exp)
            ELSE Trim(qr[1], IF qr[1] = <<>> \/ shift <= 0 THEN 0
                             ELSE Min2(shift, TrailingZeros(qr[1])))
        Scaled(m) == BDivMod(IF shift >= 0 THEN m ELSE x.m, IF shift >= 0 THEN y.m ELSE m)
    IN  IF IsNaN(x) \/ IsNaN(y) THEN NaNResult(x, y)
        ELSE IF x.t = "inf"
        THEN (IF y.t = "inf" THEN Raise("InvalidOperation") ELSE Infinity(neg))
        ELSE IF y.t = "inf" THEN Dec(neg, <<>>, Etiny)
        ELSE IF y.m = <<>>
        THEN (IF x.m = <<>> THEN Raise("InvalidOperation") ELSE Raise("DivisionByZero"))
        ELSE DFix(IF x.m = <<>> THEN Dec(neg, <<>>, x.e - y.e)
                  ELSE Quot(Scaled(BMulPow10(IF shift >= 0 THEN x.m ELSE y.m,
                                             IF shift >= 0 THEN shift ELSE 0 - shift))))

\* bool(Decimal): a zero of either sign and any exponent is falsy; an
\* infinity and a NaN are truthy.
DBool(d) == ~IsZero(d)

Zeros(n) == [i \in 1..n |-> "0"]

NatChars(n) == CharsOf(BDigits(BFromNat(n)))

\* <<integer part, fraction part, exponent>> of the text of a Decimal, as
\* Decimal.__str__ and Decimal.__format__ (presentation type G) lay it out:
\* plain notation when exp <= 0 and the value is at least 1E-6 in
\* magnitude position, scientific notation otherwise.
DParts(d) ==
    LET Split(ds, dotplace, leftdigits) ==
            IF dotplace <= 0
            THEN <<<<"0">>, Zeros(0 - dotplace) \o ds, leftdigits - dotplace>>
            ELSE IF dotplace >= Len(ds)
            THEN <<ds \o Zeros(dotplace - Len(ds)), <<>>, leftdigits - dotplace>>
            ELSE <<SubSeq(ds, 1, dotplace), SubSeq(ds, dotplace + 1, Len(ds)),
                   leftdigits - dotplace>>
        Place(ds, leftdigits) ==
            Split(ds, IF d.e <= 0 /\ leftdigits > -6 THEN leftdigits ELSE 1, leftdigits)
        Layout(ds) == Place(ds, d.e + Len(ds))
    IN  Layout(CharsOf(BDigits(d.m)))

ExpChars(x) ==
    IF x = 0 THEN <<>>
    ELSE <<"E", IF x < 0 THEN "-" ELSE "+">> \o NatChars(IF x < 0 THEN 0 - x ELSE x)

\* The digits of an integer part with "," between groups of three.
InsertThousandsSep(ip) ==
    LET n == Len(ip)
        g == (Len(ip) - 1) \div 3
    IN  [i \in 1..(n + g) |->
           IF (n + g - i) % 4 = 3 THEN ","
           ELSE ip[n - ((n + g - i) - (n + g - i) \div 4)]]

\* The text of a Decimal, with "," between the groups of three digits of
\* the integer part when grouped.
DText(d, grouped) ==
    LET Join(p) == (IF d.neg THEN <<"-">> ELSE <<>>)
                   \o (IF grouped THEN InsertThousandsSep(p[1]) ELSE p[1])
                   \o (IF p[2] = <<>> THEN <<>> ELSE <<".">> \o p[2]) \o ExpChars(p[3])
    IN  Join(DParts(d))

\* str(Decimal)
DStr(d) ==
    LET Signed(text) == (IF d.neg THEN <<"-">> ELSE <<>>) \o text
        Payload(ds) == IF d.m = <<>> THEN <<>> ELSE CharsOf(ds)
    IN  IF d.t = "inf" THEN Signed(<<"I", "n", "f", "i", "n", "i", "t", "y">>)
        ELSE IF d.t = "nan" THEN Signed(<<"N", "a", "N">> \o Payload(BDigits(d.m)))
        ELSE IF d.t = "snan" THEN Signed(<<"s", "N", "a", "N">> \o Payload(BDigits(d.m)))
        ELSE DText(d, FALSE)

\* format(d, ','): f'{d:,}'
DFormat(d) == DText(d, TRUE)

\* s without leading and trailing whitespace (str.strip).
Strip(s) ==
    LET keep == {i \in 1..Len(s) : s[i] \notin SpaceChars}
    IN  IF keep = {} THEN <<>> ELSE SubSeq(s, SetMin(keep), SetMax(keep))

\* s without its underscores.
WithoutUnderscores(s) ==
    LET Kept(c) == c # "_"
    IN  SelectSeq(s, Kept)

StartsWith(s, prefix) == Len(s) >= Len(prefix) /\ SubSeq(s, 1, Len(prefix)) = prefix

\* The lengths of the exponents that the model converts: with at most five
\* digits no quotient or product of the prices leaves the exponent range,
\* so no result is subnormal and none overflows.
ExponentDigits == 1..5

\* A NaN of the given kind with the payload that the digits spell.
DecimalNaN(kind, neg, payload) ==
    IF \E i \in 1..Len(payload) : payload[i] \notin DigitChars THEN Raise("InvalidOperation")
    ELSE Obj(kind, neg, BFromDigits(DigitsOf(payload)), 0)

\* The number with coefficient c and nfrac fraction digits whose exponent
\* part has the digits xd.
DecimalExponent(neg, c, nfrac, xneg, xd) ==
    IF xd = <<>> \/ (\E i \in 1..Len(xd) : xd[i] \notin DigitChars)
    THEN Raise("InvalidOperation")
    ELSE IF Len(xd) \notin ExponentDigits THEN Unsupported
    ELSE Dec(neg, c, (IF xneg THEN 0 - BToNat(BFromDigits(DigitsOf(xd)))
                      ELSE BToNat(BFromDigits(DigitsOf(xd)))) - nfrac)

\* The finite number that w spells after the sign: digits, an optional point
\* and digits (at least one digit in all), an optional exponent part "e",
\* sign, digits.
DecimalNumber(neg, w) ==
    LET Exponent(c, nfrac, k) ==
            IF k = Len(w) + 1 THEN Dec(neg, c, 0 - nfrac)
            ELSE IF At(w, k) # "e" THEN Raise("InvalidOperation")
            ELSE DecimalExponent(neg, c, nfrac, At(w, k + 1) = "-",
                                 Sub(w, IF At(w, k + 1) \in {"+", "-"} THEN k + 2 ELSE k + 1,
                                     Len(w) + 1))
        Coefficient(ip, frac, k) ==
            IF Len(ip) + Len(frac) = 0 THEN Raise("InvalidOperation")
            ELSE Exponent(BFromDigits(DigitsOf(ip \o frac)), Len(frac), k)
        Fraction(j, k) == Coefficient(Sub(w, 1, j), Sub(w, j + 1, k), k)
        Integer(j) == Fraction(j, IF At(w, j) = "." THEN RunEnd(w, j + 1, DigitChars) ELSE j)
    IN  Integer(RunEnd(w, 1, DigitChars))

\* Decimal(s) for a stripped text s: the underscores are dropped, the
\* letters are read without regard to case.
DecimalFromStripped(s) ==
    LET Body(neg, w) ==
            IF StartsWith(w, <<"n", "a", "n">>)
            THEN DecimalNaN("nan", neg, Sub(w, 4, Len(w) + 1))
            ELSE IF StartsWith(w, <<"s", "n", "a", "n">>)
            THEN DecimalNaN("snan", neg, Sub(w, 5, Len(w) + 1))
            ELSE IF w \in {<<"i", "n", "f">>, <<"i", "n", "f", "i", "n", "i", "t", "y">>}
            THEN Infinity(neg)
            ELSE DecimalNumber(neg, w)
        Signed(u) == Body(At(u, 1) = "-", Lower(IF At(u, 1) \in {"+", "-"} THEN Tail(u) ELSE u))
    IN  Signed(WithoutUnderscores(s))

\* Decimal(text): optional whitespace around [sign] digits [. digits]
\* [e [sign] digits], [sign] Inf, [sign] Infinity, [sign] NaN [digits] or
\* [sign] sNaN [digits]; the digits are any decimal digits of Unicode; any
\* other text is a conversion syntax error (InvalidOperation).  An exponent
\* of more than five digits is outside the model.
DecimalFromString(text) == DecimalFromStripped(Strip(text))

\* Decimal(v) for the objects eval can return: an int converts exactly, a
\* float m * 2^e converts to its exact decimal expansion: for e < 0 that is
\* m * 5^(-e) * 10^e with the trailing zeros that the exponent can absorb
\* removed; the empty tuple is an invalid sign-digits-exponent triple, and
\* Ellipsis is not convertible.
DecimalFromObj(v) ==
    LET Reduced(u, z) == Dec(v.neg, BDivPow10(u, z)[1], v.e + z)
        Expansion(u) == Reduced(u, Min2(TrailingZeros(u), 0 - v.e))
    IN  IF v.t = "int" THEN Dec(v.neg, v.m, 0)
        ELSE IF v.t = "float" THEN
            (IF v.m = <<>> THEN Dec(v.neg, <<>>, 0)
             ELSE IF v.e >= 0 THEN Dec(v.neg, BMulPow2(v.m, v.e), 0)
             ELSE Expansion(BMul(v.m, BPow(<<5>>, 0 - v.e))))
        ELSE IF v.t = "tuple" THEN Raise("ValueError")
        ELSE IF v.t = "ellipsis" THEN Raise("TypeError")
        ELSE v

\* Decimal._rescale(exp, ROUND_HALF_EVEN)
Rescale(d, exp) ==
    IF d.m = <<>> THEN Dec(d.neg, <<>>, exp)
    ELSE IF d.e >= exp THEN Dec(d.neg, BMulPow10(d.m, d.e - exp), exp)
    ELSE Dec(d.neg, DropDigits(d.m, exp - d.e), exp)

\* Decimal.quantize(Decimal((0, (1,), exp))): InvalidOperation when the
\* result would need more than Prec digits.  A value that is not a Decimal
\* (the conversion raised) passes through.
Quantize(d, exp) ==
    LET Fit(ans) == IF BNumDigits(ans.m) > Prec THEN Raise("InvalidOperation") ELSE ans
    IN  IF ~IsDec(d) THEN d
        ELSE IF d.m = <<>> THEN Dec(d.neg, <<>>, exp)
        ELSE IF (d.e + BNumDigits(d.m) - 1) - exp + 1 > Prec THEN Raise("InvalidOperation")
        ELSE Fit(Rescale(d, exp))

\* round(Decimal(result), ndigits)
PyRound(v, ndigits) == Quantize(DecimalFromObj(v), 0 - ndigits)

(***************************************************************************)
(* re.sub of a key between word boundaries: every occurrence of key that   *)
(* is delimited on both sides by a word boundary (the neighbour is not a   *)
(* word character, or there is none) is replaced.  Occurrences cannot      *)
(* overlap: a key is made of letters, so there is no boundary inside it.   *)
(***************************************************************************)
WordBoundary(s, i) == (At(s, i - 1) \in WordChars) # (At(s, i) \in WordChars)

KeyAt(s, i, key) ==
    /\ i + Len(key) - 1 <= Len(s)
    /\ SubSeq(s, i, i + Len(key) - 1) = key
    /\ WordBoundary(s, i)
    /\ WordBoundary(s, i + Len(key))

RECURSIVE SubWord(_, _, _, _)
\* s from index pos on, with the delimited occurrences of key replaced.
SubWord(s, pos, key, repl) ==
    LET First(hits) ==
            IF hits = {} THEN SubSeq(s, pos, Len(s))
            ELSE SubSeq(s, pos, SetMin(hits) - 1) \o repl
                 \o SubWord(s, SetMin(hits) + Len(key), key, repl)
    IN  First({i \in pos..Len(s) : KeyAt(s, i, key)})

(***************************************************************************)
(* The price table is a dict: a sequence of <<key, Decimal>> pairs in      *)
(* insertion order.                                                        *)
(***************************************************************************)
Keys(table) == {table[i][1] : i \in 1..Len(table)}

Get(table, key) == table[CHOOSE i \in 1..Len(table) : table[i][1] = key][2]

\* table[key] = value: an existing key keeps its position.
Put(table, key, value) ==
    IF key \in Keys(table)
    THEN [i \in 1..Len(table) |-> IF table[i][1] = key THEN <<key, value>> ELSE table[i]]
    ELSE Append(table, <<key, value>>)

\* sorted(prices.keys(), key=len, reverse=True): longest keys first, keys of
\* equal length in insertion order (the sort is stable).
SortedKeys(table) ==
    LET n    == Len(table)
        rank == [i \in 1..n |->
                   Cardinality({j \in 1..n : Len(table[j][1]) > Len(table[i][1])
                                             \/ (Len(table[j][1]) = Len(table[i][1]) /\ j < i)})]
    IN  [r \in 1..n |-> table[CHOOSE i \in 1..n : rank[i] = r - 1][1]]

RECURSIVE SubstituteGo(_, _, _, _)
SubstituteGo(s, table, keys, k) ==
    IF k > Len(keys) THEN s
    ELSE SubstituteGo(SubWord(s, 1, keys[k], DStr(Get(table, keys[k]))), table, keys, k + 1)

\* The substitution loop of evaluate_expression.
Substitute(s, table) == SubstituteGo(s, table, SortedKeys(table), 1)

(***************************************************************************)
(* The percentage rewrites.  One attempt at index i of the pattern: an     *)
(* optional "(", a digit, a run of digits, points and whitespace, an       *)
(* optional ")" (group 1); whitespace, the operator, whitespace; digits,   *)
(* an optional point, digits (group 2); whitespace and "%".  Every         *)
(* quantifier is greedy and none of the shorter alternatives can succeed   *)
(* where the longest fails (a character that a run gives back is a digit,  *)
(* a point or whitespace, never the operator or the percent sign), so the  *)
(* attempt is decided by the longest runs.                                 *)
(***************************************************************************)
\* The index after an optional character ch at index i.
SkipChar(s, i, ch) == IF At(s, i) = ch THEN i + 1 ELSE i

\* The index after an optional point and the digits that follow it.
SkipFraction(s, i) == IF At(s, i) = "." THEN RunEnd(s, i + 1, DigitChars) ELSE i

PercentMatch(s, i, op) ==
    LET a  == SkipChar(s, i, "(")
        b  == RunEnd(s, a + 1, DigitChars \cup {"."} \cup SpaceChars)
        c  == SkipChar(s, b, ")")
        d  == RunEnd(s, c, SpaceChars)
        e  == RunEnd(s, d + 1, SpaceChars)
        f  == RunEnd(s, e, DigitChars)
        g  == SkipFraction(s, f)
        h  == RunEnd(s, g, SpaceChars)
    IN  [ok |-> At(s, a) \in DigitChars /\ At(s, d) = op /\ f > e /\ At(s, h) = "%",
         start |-> i, g1 |-> Sub(s, i, c), g2 |-> Sub(s, e, g), end |-> h + 1]

RECURSIVE PercentSub(_, _, _)
\* re.sub of the pattern for op on s from index pos on: leftmost matches,
\* left to right, without overlap, in a single pass.
PercentSub(s, pos, op) ==
    LET Rewrite(m) ==
            SubSeq(s, pos, m.start - 1)
            \o <<"(">> \o m.g1 \o <<" ", "*", " ", "(", "1", " ", op, " ">> \o m.g2
            \o <<" ", "/", " ", "1", "0", "0", ")", ")">>
            \o PercentSub(s, m.end, op)
        First(ms) ==
            IF ms = {} THEN SubSeq(s, pos, Len(s))
            ELSE Rewrite(CHOOSE m \in ms : \A o \in ms : m.start <= o.start)
    IN  First({m \in {PercentMatch(s, i, op) : i \in pos..Len(s)} : m.ok})

\* safe_pattern.match(s): one or more characters of the class up to the end
\* of the string, or up to a final newline.
SafeMatch(s) ==
    LET body == IF At(s, Len(s)) = "\n" THEN SubSeq(s, 1, Len(s) - 1) ELSE s
    IN  body # <<>> /\ \A i \in 1..Len(body) : body[i] \in SafeChars

\* needle in s
Contains(s, needle) ==
    \E i \in 1..(Len(s) - Len(needle) + 1) : SubSeq(s, i, i + Len(needle) - 1) = needle

CryptoTokens == {<<"b", "n", "c">>, <<"e", "t", "h">>, <<"o", "b">>, <<"o", "e">>}

\* any(crypto in original_expression for crypto in ['bnc', 'eth', 'ob', 'oe'])
IsCrypto(original) == \E c \in CryptoTokens : Contains(original, c)

\* str.replace(old, new) for single characters.
ReplaceChar(s, old, new) == [i \in 1..Len(s) |-> IF s[i] = old THEN new ELSE s[i]]

(***************************************************************************)
(* The price feeds.  A currency-feed response is [ok, valutes]: ok is      *)
(* FALSE for a network failure, a non-success HTTP status or malformed     *)
(* XML; valutes lists the Valute elements as <<CharCode, Value, Nominal>>. *)
(* A ticker response is [ok, price]: ok is FALSE for a network failure, a  *)
(* non-success status or a body without a price.                           *)
(***************************************************************************)
None == Obj("none", FALSE, <<>>, 0)

\* valute_map
ValuteMap(code) ==
    CASE code = "USD" -> <<"u", "r">>
      [] code = "CNY" -> <<"c", "r">>
      [] code = "EUR" -> <<"e", "r">>

ValuteCodes == {"USD", "CNY", "EUR"}

\* Decimal(value_str) / Decimal(nominal) for one Valute element.
\* value / nominal, or the exception that one of the conversions raised.
ValueByNominal(value, nominal) ==
    IF ~IsDec(value) THEN value
    ELSE IF ~IsDec(nominal) THEN nominal
    ELSE DDiv(value, nominal)

ValutePrice(valute) ==
    ValueByNominal(DecimalFromString(ReplaceChar(valute[2], ",", ".")), DecimalFromString(valute[3]))

\* A dict under construction is [raised, table]: raised names the exception
\* that ended the construction, "" if none.
Building(raised, table) == [raised |-> raised, table |-> table]

\* table[key] = v, or the exception that the computation of v raised.
Store(r, key, v) ==
    IF r.raised # "" THEN r
    ELSE IF IsDec(v) THEN Building("", Put(r.table, key, v))
    ELSE Building(v.t, r.table)

RECURSIVE CbrPrices(_, _)
\* The dict built by the loop over the first n Valute elements.
CbrPrices(valutes, n) ==
    IF n = 0 THEN Building("", <<>>)
    ELSE IF valutes[n][1] \in ValuteCodes
    THEN Store(CbrPrices(valutes, n - 1), ValuteMap(valutes[n][1]), ValutePrice(valutes[n]))
    ELSE CbrPrices(valutes, n - 1)

\* fetch_cbr_prices: the prices of the watched currencies, or the empty dict
\* when anything raised (the response failed, or some watched Valute has a
\* value that is not a Decimal, or a division that signals).  The result is
\* [raised, table]: raised is "" with the dict that the function returns,
\* and "unsupported" when a text of the response is outside the model.
fetch_cbr_prices(response) ==
    LET Caught(r) == IF r.raised \in {"", "unsupported"} THEN r ELSE Building("", <<>>)
    IN  IF ~response.ok THEN Building("", <<>>)
        ELSE Caught(CbrPrices(response.valutes, Len(response.valutes)))

\* get_binance_price: Decimal(data['price']), or None when anything raised
\* (Unsupported when the text of the price is outside the model).
get_binance_price(response) ==
    LET Caught(price) == IF IsDec(price) \/ price = Unsupported THEN price ELSE None
    IN  IF ~response.ok THEN None ELSE Caught(DecimalFromString(response.price))

\* The truth value of a ticker result: None and a zero Decimal are falsy, any
\* other Decimal (a NaN and an infinity too) is truthy.
Truthy(price) == IsDec(price) /\ DBool(price)

\* The merge of the three results, lines 137-145.
MergePrices(cbr_prices, bnc_price, eth_price) ==
    LET a == IF cbr_prices # <<>> THEN cbr_prices ELSE <<>>
        b == IF Truthy(bnc_price) THEN Put(a, <<"b", "n", "c">>, bnc_price) ELSE a
    IN  IF Truthy(eth_price) THEN Put(b, <<"e", "t", "h">>, eth_price) ELSE b

\* A derivation that indexes the table without testing for its operands.
DeriveUnguarded(r, key, x, y, isDiv) ==
    IF r.raised # "" THEN r
    ELSE IF ~({x, y} \subseteq Keys(r.table)) THEN Building("KeyError", r.table)
    ELSE Store(r, key, IF isDiv THEN DDiv(Get(r.table, x), Get(r.table, y))
                       ELSE DMul(Get(r.table, x), Get(r.table, y)))

\* One derived ticker: table[key] = op(table[x], table[y]) when both operands
\* are in the table.  The result is [raised, table]: raised names the
\* exception that left the function, "" if none.
Derive(r, key, x, y, isDiv) ==
    IF r.raised # "" \/ ~({x, y} \subseteq Keys(r.table)) THEN r
    ELSE Store(r, key, IF isDiv THEN DDiv(Get(r.table, x), Get(r.table, y))
                       ELSE DMul(Get(r.table, x), Get(r.table, y)))

\* The three derived tickers, in the order of the code: <<key, x, y, isDiv>>.
DerivedTickers ==
    << <<<<"e", "u">>, <<"e", "r">>, <<"u", "r">>, TRUE>>,
       <<<<"o", "b">>, <<"b", "n", "c">>, <<"u", "r">>, FALSE>>,
       <<<<"o", "e">>, <<"e", "t", "h">>, <<"u", "r">>, FALSE>> >>

RECURSIVE DerivedGo(_, _)
\* The table after the first k derived tickers.
DerivedGo(all_prices, k) ==
    IF k = 0 THEN Building("", all_prices)
    ELSE Derive(DerivedGo(all_prices, k - 1), DerivedTickers[k][1], DerivedTickers[k][2],
                DerivedTickers[k][3], DerivedTickers[k][4])

\* The derived tickers, lines 147-153.
DerivedPrices(all_prices) == DerivedGo(all_prices, Len(DerivedTickers))

\* fetch_all_prices, given the responses of the three requests.
fetch_all_prices(cbr, bnc, eth) ==
    LET Merged(c, b, e) ==
            IF c.raised # "" \/ b = Unsupported \/ e = Unsupported
            THEN Building("unsupported", <<>>)
            ELSE DerivedPrices(MergePrices(c.table, b, e))
    IN  Merged(fetch_cbr_prices(cbr), get_binance_price(bnc), get_binance_price(eth))

(***************************************************************************)
(* evaluate_expression.  Its return value is [kind, text]: kind "Value"    *)
(* with the formatted number, or the name of one of the error messages     *)
(* with an empty text.                                                     *)
(***************************************************************************)
Outcome(kind, text) == [kind |-> kind, text |-> text]

\* Except clauses without the one for ZeroDivisionError.
ClassifyNoZeroDivision(exc) ==
    IF exc \in {"SyntaxError", "NameError"} THEN "SyntaxError"
    ELSE IF exc \in {"InvalidOperation", "TypeError"} THEN "InvalidOperation"
    ELSE IF exc = "unsupported" THEN "Unsupported"
    ELSE "UnknownError"

\* The except clauses, in order: the message returned for an exception.
Classify(exc) ==
    IF exc \in {"SyntaxError", "NameError"} THEN "SyntaxError"
    ELSE IF exc \in {"ZeroDivisionError", "DivisionByZero"} THEN "DivisionByZero"
    ELSE IF exc \in {"InvalidOperation", "TypeError"} THEN "InvalidOperation"
    ELSE IF exc = "unsupported" THEN "Unsupported"
    ELSE "UnknownError"

PercentPlus(s) == PercentSub(s, 1, "+")

\* A second pass that repeats the pattern of the first.
PercentMinusAsPlus(s) == PercentSub(s, 1, "+")

PercentMinus(s) == PercentSub(s, 1, "-")

\* round(Decimal(result), 8) for a crypto expression, else round(..., 2).
RoundResult(v, original_expression) ==
    PyRound(v, IF IsCrypto(original_expression) THEN 8 ELSE 2)

\* f'{result:,}'.replace(',', ' ').replace('.', ',')
FormatResult(d) == ReplaceChar(ReplaceChar(DFormat(d), ",", " "), ".", ",")

\* The answer for a result of eval and its rounding.
Answer(result, rounded) ==
    IF ~IsValue(result) THEN Outcome(Classify(result.t), <<>>)
    ELSE IF ~IsDec(rounded) THEN Outcome(Classify(rounded.t), <<>>)
    ELSE Outcome("Value", FormatResult(rounded))

\* Lines 173-184 on the rewritten expression.
Evaluated(rewritten, original) ==
    LET Round(result) == Answer(result, RoundResult(result, original))
    IN  IF ~SafeMatch(rewritten) THEN Outcome("InvalidCharacters", <<>>)
        ELSE Round(PyEval(rewritten))

\* evaluate_expression as a function of the stripped, lower-cased query and
\* of the responses of the three requests.
evaluate_expression(expression, cbr, bnc, eth) ==
    LET Rewritten(fetched) ==
            IF ~InAlphabet(expression) THEN Outcome("Unsupported", <<>>)
            ELSE IF fetched.raised # "" THEN Outcome(Classify(fetched.raised), <<>>)
            ELSE IF fetched.table = <<>> THEN Outcome("RatesUnavailable", <<>>)
            ELSE Evaluated(PercentMinus(PercentPlus(Substitute(expression, fetched.table))),
                           expression)
    IN  Rewritten(fetch_all_prices(cbr, bnc, eth))

(***************************************************************************)
(* The inputs of a run: the text of the inline query and the responses     *)
(* that the three feeds will give.                                         *)
(***************************************************************************)
Valute(code, value, nominal) == <<code, value, nominal>>

CbrFailed == [ok |-> FALSE, valutes |-> <<>>]

CbrOk(valutes) == [ok |-> TRUE, valutes |-> valutes]

TickerFailed == [ok |-> FALSE, price |-> <<>>]

TickerOk(price) == [ok |-> TRUE, price |-> price]

UsdValute == Valute("USD", <<"9", "2", ",", "5", "0", "0", "0">>, <<"1">>)

EurValute == Valute("EUR", <<"1", "0", "0", ",", "2", "5", "0", "0">>, <<"1">>)

CnyValute == Valute("CNY", <<"1", "2", "8", ",", "0", "0", "0">>, <<"1", "0">>)

GbpValute == Valute("GBP", <<"1", "1", "7", ",", "3", "0", "0", "0">>, <<"1">>)

UsdZero == Valute("USD", <<"0">>, <<"1">>)

EurZero == Valute("EUR", <<"0", ",", "0", "0">>, <<"1">>)

EurBadValue == Valute("EUR", <<"n", "/", "a">>, <<"1">>)

CnyZeroNominal == Valute("CNY", <<"1", "2", "8", ",", "0", "0", "0">>, <<"0">>)

MainCbr == CbrOk(<<GbpValute, UsdValute, EurValute, CnyValute>>)

\* The currency feed: failed; delivered without any watched currency;
\* delivered in full; delivered in part; delivered with a zero dollar rate,
\* the euro rate positive or zero too; delivered with a value or a nominal
\* that cannot be divided.
CbrResponses ==
    {CbrFailed, CbrOk(<<GbpValute>>), MainCbr, CbrOk(<<EurValute, CnyValute>>),
     CbrOk(<<UsdValute>>), CbrOk(<<UsdZero, EurValute>>), CbrOk(<<UsdZero, EurZero>>),
     CbrOk(<<UsdValute, EurBadValue>>), CbrOk(<<UsdValute, CnyZeroNominal>>)}

BtcPrice == <<"6", "0", "0", "0", "0", ".", "0", "0", "0", "0", "0", "0", "0", "0">>

EthPrice == <<"3", "0", "0", "0", ".", "5", "0", "0", "0", "0", "0", "0", "0">>

ZeroPrice == <<"0", ".", "0", "0", "0", "0", "0", "0", "0", "0">>

\* A ticker: failed; delivered a price; delivered a zero price; delivered
\* a text that is not a Decimal.
BncResponses == {TickerFailed, TickerOk(BtcPrice), TickerOk(ZeroPrice), TickerOk(<<"-">>)}

EthResponses == {TickerFailed, TickerOk(EthPrice), TickerOk(ZeroPrice)}

Feeds(cbr, bnc, eth) == [cbr |-> cbr, bnc |-> bnc, eth |-> eth]

\* Prices that Decimal reads and that are not plain numbers: NaNs, infinities,
\* an exponent, an underscore, whitespace and digits outside ASCII.
SpecialPrices ==
    {<<"N", "a", "N">>, <<"-", "n", "a", "n", "0", "1", "2">>, <<"s", "N", "a", "N">>,
     <<"I", "n", "f", "i", "n", "i", "t", "y">>, <<"-", "I", "n", "f", "i", "n", "i", "t", "y">>,
     <<"1", "e", "3">>, <<"6", "_", "0">>, <<"U+000B", "7", "U+00A0">>,
     <<"U+0666", "U+0660", ".", "U+0665">>}

UsdByInfinity == Valute("USD", <<"1">>, <<"I", "n", "f">>)

UsdInfinity == Valute("USD", <<"i", "n", "f", "i", "n", "i", "t", "y">>, <<"1">>)

UsdInfinityByInfinity == Valute("USD", <<"I", "n", "f">>, <<"I", "n", "f">>)

UsdNaN == Valute("USD", <<"N", "a", "N">>, <<"1">>)

UsdArabic == Valute("USD", <<"U+0669", "U+0662", ",", "U+0665">>, <<"U+0661">>)

\* Feeds with such prices: a special ticker beside the full currency feed;
\* an infinite ticker beside a zero dollar rate; dollar rates that are zero
\* (1 / Inf), infinite, undefined (Inf / Inf), a NaN, or written in
\* Arabic-Indic digits.
SpecialFeeds ==
    {Feeds(MainCbr, TickerOk(p), TickerOk(EthPrice)) : p \in SpecialPrices}
    \cup {Feeds(CbrOk(<<UsdZero>>), TickerOk(<<"I", "n", "f">>), TickerFailed)}
    \cup {Feeds(CbrOk(<<v, EurValute>>), TickerOk(BtcPrice), TickerFailed) :
             v \in {UsdByInfinity, UsdInfinity, UsdInfinityByInfinity, UsdNaN, UsdArabic}}

MainFeeds == Feeds(MainCbr, TickerOk(BtcPrice), TickerOk(EthPrice))

AllFeeds == {Feeds(c, b, e) : c \in CbrResponses, b \in BncResponses, e \in EthResponses}

\* The operands and operators of the two-operand queries.
LeftOperands ==
    {<<"5">>, <<"7", ".", "5">>, <<"u", "r">>, <<"b", "n", "c">>, <<"(", "2", "+", "3", ")">>}

BinaryOperators ==
    {<<"+">>, <<"-">>, <<"*">>, <<"/">>, <<"/", "/">>, <<" ", "+", " ">>, <<" ">>}

RightOperands ==
    {<<"0">>, <<"2">>, <<"3">>, <<"u", "r">>, <<"0", ".", "5">>}

BinaryQueries == {a \o op \o b : a \in LeftOperands, op \in BinaryOperators, b \in RightOperands}

PowerBases ==
    {<<"2">>, <<"5">>, <<"1", ".", "5">>, <<"u", "r">>, <<"(", "2", "+", "3", ")">>, <<"0">>}

PowerExponents ==
    {<<"0">>, <<"2">>, <<"3">>}

PowerQueries == {a \o <<"*", "*">> \o b : a \in PowerBases, b \in PowerExponents}

\* The pieces of the percentage queries: operand, spacing, sign, percentage, rest.
PercentOperands ==
    {<<"1", "0", "0">>, <<"2", "0", "0">>, <<"u", "r">>, <<"(", "5", ")">>, <<"1", ".", "5">>}

PercentSpacings ==
    {<<>>, <<" ">>}

PercentValues ==
    {<<"1", "0">>, <<"2", "5">>, <<"1", ".", "5">>}

PercentRests ==
    {<<>>, <<"*", "2">>}

PercentQueries ==
    {x \o sp \o <<op>> \o sp \o p \o <<"%">> \o rest :
        x \in PercentOperands, sp \in PercentSpacings, op \in {"+", "-"},
        p \in PercentValues, rest \in PercentRests}

\* Results of growing and shrinking magnitude: a base followed by 0..MaxZeros zeros.
MagnitudeBases ==
    {<<"b", "n", "c", "*", "1">>, <<"1">>, <<"b", "n", "c", "/", "1">>}

MaxZeros == 17

MagnitudeQueries == {b \o Zeros(k) : b \in MagnitudeBases, k \in 0..MaxZeros}

\* Queries written out one by one.
EdgeQueries ==
    {<<>>, <<" ", " ", " ">>, <<"U", "R">>, <<" ", "u", "r", " ">>, <<"e", "u", "r">>,
     <<"1", "_", "0">>, <<"5", " ", "+", " ", ".", "5", "%">>,
     <<"1", "0", "0", "0", "0", "0", "0", "0", "0", "0", "0", "0", "0", "0", "0", "0", "0", ".", "0", "/", "/", "1", ".", "5">>,
     <<"-", "0", ".", "3", "/", "/", "0", ".", "1">>, <<"7", ".", "5", "/", "/", "-", "2">>,
     <<"1", "0", "0", "+", "1", "0", "%", "-", "5", "%">>, <<"-", "5">>, <<"-", "-", "5">>,
     <<"b", "n", "c", "-", "b", "n", "c">>, <<"b", "n", "c", "*", "0">>, <<"(", ")">>,
     <<".", ".", ".">>, <<"1", "(", "2", ")">>, <<"(", "5", ")", "(", "6", ")">>, <<"5", "/">>,
     <<"2", "*", "*", "*", "3">>, <<"0", "0", "7">>, <<"1", ".", "2", ".", "3">>,
     <<"5", " ", ".", " ", "5">>, <<"1", "2", "3", "4", "5", "6", "7", ".", "8", "9">>, <<"0">>,
     <<"-", "1", "2", "3", "4", ".", "5">>, <<"2", "*", "*", "-", "1">>,
     <<"0", "*", "*", "-", "1">>, <<"5", "+", "-", "3">>, <<"5", "-", "+", "-", "3">>,
     <<"1", "0", ".", "+", "1">>, <<".", "5">>, <<"1", "/", "3">>,
     <<"2", "/", "3", "+", "b", "n", "c", "*", "0">>, <<"0", ".", "5", " ", "+", " ", "1", "%">>,
     <<"(", "5", " ", "+", " ", "1", "0", "%">>, <<"5", ")", " ", "+", " ", "1", "0", "%">>,
     <<"2", "u", "r">>, <<"u", "r", " ", "u", "r">>, <<"u", "r", "+", "o", "e">>, <<"x">>,
     <<"2", "*", "*", "3", "*", "*", "2">>, <<"5", "\t", "+", " ", "1", "%">>,
     <<"1", " ", "+", " ", "2", " ", "+", " ", "3", "%">>, <<"e", "t", "h", "/", "o", "b">>,
     <<"o", "e", "-", "o", "b">>, <<"e", "u", "*", "c", "r">>,
     <<"1", "0", "0", " ", "+", " ", "1", "0", "%">>,
     <<"2", "0", "0", " ", "-", " ", "2", "5", "%">>, <<"5", "/", "0">>, <<"2", "*", "*", "3">>,
     <<"7", "/", "/", "2">>,
     <<"b", "n", "c", "/", "1", "0", "0", "0", "0", "0", "0", "0", "0", "0", "0", "0">>,
     <<"o", "b">>, <<"o", "b", " ", "+", " ", "e", "u">>, <<"1">>,
     <<"(", "1", "+", "2", ")", " ", "+", " ", "1", "0", "%">>,
     <<"B", "n", "c", " ", "*", " ", "2", " ">>, <<"u", "r", "+", "1", ".", "5", "%">>, <<"%">>,
     <<"1", "+", "1", "\n">>}

\* Queries with whitespace, digits and letters outside ASCII.
UnicodeQueries ==
    {<<"U+0663">>, <<"1", "U+0663">>, <<"U+FF11">>, <<"U+0663", "+", "U+0663">>,
     <<"U+000B", "5">>, <<"u", "r", "U+00A0">>, <<"U+00E9", "u", "r">>, <<"u", "r", "U+00B5">>,
     <<"U+00AA", "u", "r", " ", "u", "r">>, <<"U+00DC", "R">>, <<"U+00D1", "e", "r", " ", "E", "R">>,
     <<"5", "U+000B", "+", " ", "1", "%">>, <<"5", "U+00A0", "+", "1", "%">>,
     <<"9", " ", "-", "U+00A0", "2", "%">>, <<"5", " ", "+", " ", "1", "U+0663", "%">>,
     <<"5", " ", "+", " ", "U+0661", "U+0660", "%">>}

\* The number 1 in n pairs of parentheses.
Nested(n) == Tup([i \in 1..n |-> "("], n) \o <<"1">> \o Tup([i \in 1..n |-> ")"], n)

\* n signs inside as many parentheses as the tokenizer accepts, and one
\* parenthesis more.
NestedSigns(n) ==
    Tup([i \in 1..MaxLevel |-> "("], MaxLevel) \o Tup([i \in 1..n |-> "-"], n) \o <<"(">>

\* The fewest signs with which the parser's stack overflows before the
\* tokenizer rejects the parenthesis after them.
OverflowSigns == MaxStack - 28 * MaxLevel - SignStack

\* Queries at the limits of the interpreter: parentheses nested as deep as
\* a query of the other sets never is and one level deeper than the
\* tokenizer accepts, signs up to and past the end of the parser's stack,
\* and a true division of an integer beyond the floats.
LimitQueries ==
    {Nested(20), Nested(MaxLevel + 1), NestedSigns(OverflowSigns - 1),
     NestedSigns(OverflowSigns), <<"1">> \o Tup(Zeros(310), 310) \o <<"/", "1">>}

\* The queries of the runs that exercise the evaluator, and those of the
\* runs that exercise the feeds; every written-out query also runs with all
\* three feeds failed.
EvalQueries ==
    BinaryQueries \cup PowerQueries \cup PercentQueries \cup MagnitudeQueries \cup EdgeQueries
    \cup UnicodeQueries \cup LimitQueries

FetchQueries == {<<"o", "b", " ", "+", " ", "e", "u">>, <<"1">>}

SpecialQueries == FetchQueries \cup {<<"b", "n", "c">>, <<"u", "r">>}

FailedFeeds == Feeds(CbrFailed, TickerFailed, TickerFailed)

Scenarios ==
    {<<q, MainFeeds>> : q \in EvalQueries} \cup {<<q, f>> : q \in FetchQueries, f \in AllFeeds}
    \cup {<<q, FailedFeeds>> : q \in EdgeQueries}
    \cup {<<q, f>> : q \in SpecialQueries, f \in SpecialFeeds}

(***************************************************************************)
(* One inline query, from inline_handler to the text it answers with.      *)
(*   query, feeds         the inputs                                       *)
(*   pc                   the position in inline_handler /                 *)
(*                        evaluate_expression / fetch_all_prices           *)
(*   task, ready          the three coroutines handed to asyncio.gather:   *)
(*                        "new", "pending" (suspended in session.get, the  *)
(*                        request outstanding), "reading" (suspended in    *)
(*                        response.text() / response.json()), "done";      *)
(*                        ready is the event loop's queue of tasks whose   *)
(*                        first step has not run yet                       *)
(*   cbr_prices, bnc_price, eth_price   the results of the three tasks     *)
(*   all_prices, fetched  the price table, and how fetch_all_prices ended  *)
(*                        ("" not yet, "returned", "raised")               *)
(*   expression, original_expression, value, rounded, result               *)
(*                        the locals of evaluate_expression                *)
(*   stages, evaluated    history: the pipeline stages that ran, in order, *)
(*                        and the strings handed to eval                   *)
(***************************************************************************)
VARIABLES query, feeds, pc, task, ready, cbr_prices, bnc_price, eth_price, all_prices,
          fetched, expression, original_expression, value, rounded, result, stages, evaluated

vars == <<query, feeds, pc, task, ready, cbr_prices, bnc_price, eth_price, all_prices,
          fetched, expression, original_expression, value, rounded, result, stages, evaluated>>

Tasks == {"cbr_task", "bnc_task", "eth_task"}

NoResult == Outcome("", <<>>)

Init ==
    /\ \E s \in Scenarios : query = s[1] /\ feeds = s[2]
    /\ pc = "inline_handler"
    /\ task = [t \in Tasks |-> "new"]
    /\ ready = <<>>
    /\ cbr_prices = <<>>
    /\ bnc_price = None
    /\ eth_price = None
    /\ all_prices = <<>>
    /\ fetched = ""
    /\ expression = <<>>
    /\ original_expression = <<>>
    /\ value = None
    /\ rounded = None
    /\ result = NoResult
    /\ stages = <<>>
    /\ evaluated = <<>>

\* inline_handler: the query is lower-cased and stripped; an empty query is
\* not answered, any other is handed to evaluate_expression.  (A query with
\* a character outside the alphabet is outside the model.)
InlineHandler ==
    /\ pc = "inline_handler"
    /\ LET user_query == Strip(Lower(query))
       IN  IF ~InAlphabet(query)
           THEN /\ pc' = "done" /\ result' = Outcome("Unsupported", <<>>)
                /\ UNCHANGED <<expression, original_expression>>
           ELSE IF user_query = <<>>
           THEN pc' = "ignored" /\ UNCHANGED <<expression, original_expression, result>>
           ELSE /\ pc' = "gather"
                /\ expression' = user_query
                /\ original_expression' = user_query
                /\ UNCHANGED result
    /\ UNCHANGED <<query, feeds, task, ready, cbr_prices, bnc_price, eth_price, all_prices,
                   fetched, value, rounded, stages, evaluated>>

\* asyncio.gather(cbr_task, bnc_task, eth_task): the three coroutines become
\* tasks, scheduled in argument order; fetch_all_prices waits for all of them.
Gather ==
    /\ pc = "gather"
    /\ ready' = <<"cbr_task", "bnc_task", "eth_task">>
    /\ pc' = "await"
    /\ UNCHANGED <<query, feeds, task, cbr_prices, bnc_price, eth_price, all_prices, fetched,
                   expression, original_expression, value, rounded, result, stages, evaluated>>

\* The event loop runs the first step of the next scheduled task: the task
\* issues its request and is suspended in session.get until the response.
StartTask ==
    /\ pc = "await"
    /\ ready # <<>>
    /\ task' = [task EXCEPT ![Head(ready)] = "pending"]
    /\ ready' = Tail(ready)
    /\ UNCHANGED <<query, feeds, pc, cbr_prices, bnc_price, eth_price, all_prices, fetched,
                   expression, original_expression, value, rounded, result, stages, evaluated>>

\* The response that the feed gives to the request of task t.
Response(t) ==
    CASE t = "cbr_task" -> feeds.cbr
      [] t = "bnc_task" -> feeds.bnc
      [] t = "eth_task" -> feeds.eth

\* The task t runs to its end, success or failure, and settles with a result:
\* the dict of fetch_cbr_prices, the price or None of get_binance_price.  (A
\* response with a text outside the model ends the run as Unsupported.)
Settle(t) ==
    /\ task' = [task EXCEPT ![t] = "done"]
    /\ \E c \in {IF t = "cbr_task" THEN fetch_cbr_prices(feeds.cbr)
                  ELSE Building("", cbr_prices)} :
           /\ cbr_prices' = c.table
           /\ bnc_price' = IF t = "bnc_task" THEN get_binance_price(feeds.bnc) ELSE bnc_price
           /\ eth_price' = IF t = "eth_task" THEN get_binance_price(feeds.eth) ELSE eth_price
           /\ IF c.raised # "" \/ bnc_price' = Unsupported \/ eth_price' = Unsupported
              THEN pc' = "done" /\ result' = Outcome("Unsupported", <<>>)
              ELSE UNCHANGED <<pc, result>>

\* A loop that polled for I/O between the first steps of the tasks.
CanRespondEarly(tk, rdy, t) == tk[t] = "pending"

\* A response is handled only once the loop has run every scheduled first
\* step: the loop empties its ready queue before it polls for I/O.
CanRespond(tk, rdy, t) == tk[t] = "pending" /\ rdy = <<>>

\* The request of task t ends (in any order among the tasks) and the task
\* resumes in session.get.  With the response at hand the task goes on to
\* read its body and is suspended again; a request that failed, or a
\* response whose status raise_for_status rejects, raises in the task,
\* which settles at once.  A feed that fails may also fail only when the
\* body is read.
Respond(t) ==
    /\ pc = "await"
    /\ CanRespond(task, ready, t)
    /\ \/ /\ task' = [task EXCEPT ![t] = "reading"]
          /\ UNCHANGED <<pc, cbr_prices, bnc_price, eth_price, result>>
       \/ /\ ~Response(t).ok
          /\ Settle(t)
    /\ UNCHANGED <<query, feeds, ready, all_prices, fetched, expression,
                   original_expression, value, rounded, stages, evaluated>>

\* The body of the response of task t has been read (in any order among the
\* tasks, and among the requests still outstanding): the task resumes and
\* runs to its end.
Complete(t) ==
    /\ pc = "await"
    /\ task[t] = "reading"
    /\ Settle(t)
    /\ UNCHANGED <<query, feeds, ready, all_prices, fetched, expression,
                   original_expression, value, rounded, stages, evaluated>>

\* The gather future is done when every task has settled.
AllSettled(tk) == \A t \in Tasks : tk[t] = "done"

\* fetch_all_prices after the await: the merge of the results and the derived
\* tickers.  An exception raised here leaves fetch_all_prices and is caught by
\* the except clauses of evaluate_expression.
FetchReturn ==
    /\ pc = "await"
    /\ AllSettled(task)
    /\ \E r \in {DerivedPrices(MergePrices(cbr_prices, bnc_price, eth_price))} :
           /\ all_prices' = r.table
           /\ IF r.raised = ""
              THEN fetched' = "returned" /\ pc' = "check_prices" /\ UNCHANGED result
              ELSE /\ fetched' = "raised"
                   /\ pc' = "done"
                   /\ result' = Outcome(Classify(r.raised), <<>>)
    /\ UNCHANGED <<query, feeds, task, ready, cbr_prices, bnc_price, eth_price, expression,
                   original_expression, value, rounded, stages, evaluated>>

\* An evaluate_expression without the test of the table.
NoPricesUnchecked(prices) == FALSE

\* "not prices": the table is empty.
NoPrices(prices) == prices = <<>>

\* Lines 164-165: without a single price the answer is the rates-unavailable
\* message, and nothing else of the pipeline runs.
CheckPrices ==
    /\ pc = "check_prices"
    /\ IF NoPrices(all_prices)
       THEN pc' = "done" /\ result' = Outcome("RatesUnavailable", <<>>)
       ELSE pc' = "substitute" /\ UNCHANGED result
    /\ UNCHANGED <<query, feeds, task, ready, cbr_prices, bnc_price, eth_price, all_prices,
                   fetched, expression, original_expression, value, rounded, stages, evaluated>>

\* Lines 167-168: every ticker of the table is replaced by its price, the
\* longest tickers first.
SubstituteStep ==
    /\ pc = "substitute"
    /\ expression' = Substitute(expression, all_prices)
    /\ stages' = Append(stages, "substitute")
    /\ pc' = "percent_plus"
    /\ UNCHANGED <<query, feeds, task, ready, cbr_prices, bnc_price, eth_price, all_prices,
                   fetched, original_expression, value, rounded, result, evaluated>>

\* Line 170: the pass that rewrites "X + p%".
PercentPlusStep ==
    /\ pc = "percent_plus"
    /\ expression' = PercentPlus(expression)
    /\ stages' = Append(stages, "percent_plus")
    /\ pc' = "percent_minus"
    /\ UNCHANGED <<query, feeds, task, ready, cbr_prices, bnc_price, eth_price, all_prices,
                   fetched, original_expression, value, rounded, result, evaluated>>

\* Line 171: the pass that rewrites "X - p%".
PercentMinusStep ==
    /\ pc = "percent_minus"
    /\ expression' = PercentMinus(expression)
    /\ stages' = Append(stages, "percent_minus")
    /\ pc' = "validate"
    /\ UNCHANGED <<query, feeds, task, ready, cbr_prices, bnc_price, eth_price, all_prices,
                   fetched, original_expression, value, rounded, result, evaluated>>

\* Lines 173-175: the character gate on the rewritten expression.
Validate ==
    /\ pc = "validate"
    /\ stages' = Append(stages, "validate")
    /\ IF SafeMatch(expression)
       THEN pc' = "eval" /\ UNCHANGED result
       ELSE pc' = "done" /\ result' = Outcome("InvalidCharacters", <<>>)
    /\ UNCHANGED <<query, feeds, task, ready, cbr_prices, bnc_price, eth_price, all_prices,
                   fetched, expression, original_expression, value, rounded, evaluated>>

\* Line 177: eval of the rewritten expression; what it raises is caught by
\* the except clauses.
EvalStep ==
    /\ pc = "eval"
    /\ stages' = Append(stages, "eval")
    /\ evaluated' = Append(evaluated, expression)
    /\ value' = PyEval(expression)
    /\ IF IsValue(value')
       THEN pc' = "round" /\ UNCHANGED result
       ELSE pc' = "done" /\ result' = Outcome(Classify(value'.t), <<>>)
    /\ UNCHANGED <<query, feeds, task, ready, cbr_prices, bnc_price, eth_price, all_prices,
                   fetched, expression, original_expression, rounded>>

\* Lines 179-182: the result as a Decimal rounded to 8 places for a crypto
\* expression, to 2 otherwise; what Decimal or round raises is caught by the
\* except clauses.
RoundStep ==
    /\ pc = "round"
    /\ stages' = Append(stages, "round")
    /\ rounded' = RoundResult(value, original_expression)
    /\ IF IsDec(rounded')
       THEN pc' = "format" /\ UNCHANGED result
       ELSE pc' = "done" /\ result' = Outcome(Classify(rounded'.t), <<>>)
    /\ UNCHANGED <<query, feeds, task, ready, cbr_prices, bnc_price, eth_price, all_prices,
                   fetched, expression, original_expression, value, evaluated>>

\* Line 184: the formatted number is the answer.
FormatStep ==
    /\ pc = "format"
    /\ stages' = Append(stages, "format")
    /\ result' = Outcome("Value", FormatResult(rounded))
    /\ pc' = "done"
    /\ UNCHANGED <<query, feeds, task, ready, cbr_prices, bnc_price, eth_price, all_prices,
                   fetched, expression, original_expression, value, rounded, evaluated>>

Next ==
    \/ InlineHandler
    \/ Gather
    \/ StartTask
    \/ \E t \in Tasks : Respond(t)
    \/ \E t \in Tasks : Complete(t)
    \/ FetchReturn
    \/ CheckPrices
    \/ SubstituteStep
    \/ PercentPlusStep
    \/ PercentMinusStep
    \/ Validate
    \/ EvalStep
    \/ RoundStep
    \/ FormatStep

Spec == Init /\ [][Next]_vars

\* The model covers every input of the runs: no answer comes from a case
\* the model leaves out.
Covered == result.kind # "Unsupported"

(***************************************************************************)
(* Properties.  Has(k): the ticker k is in the price table; Returned: the  *)
(* table is the one fetch_all_prices returned.                             *)
(***************************************************************************)
Has(k) == k \in Keys(all_prices)

Returned == fetched = "returned"

Ran(stage) == \E i \in 1..Len(stages) : stages[i] = stage

Primitives == {<<"u", "r">>, <<"c", "r">>, <<"e", "r">>, <<"b", "n", "c">>, <<"e", "t", "h">>}

\* C1: the three requests are outstanding together (no task gets its
\* response, let alone settles, while another has not yet issued its
\* request), and the price table with the derived tickers eu, ob, oe is
\* computed only after all three tasks have settled, whatever the order in
\* which the responses arrive, the bodies are read and the tasks settle.
C1_ConcurrentFetch ==
    /\ (\E t \in Tasks : task[t] \in {"reading", "done"}) => (\A t \in Tasks : task[t] # "new")
    /\ fetched # "" => AllSettled(task)
    /\ ~AllSettled(task) => all_prices = <<>>

\* fetch_all_prices returned the three derived tickers.
C1_Witness ==
    Returned /\ Has(<<"e", "u">>) /\ Has(<<"o", "b">>) /\ Has(<<"o", "e">>)

\* C2: in every returned table the primitive tickers are those of the
\* sub-fetches that succeeded, with the values they delivered, and no others:
\* the currency feed's dict as fetch_cbr_prices returned it, bnc iff the BTC
\* ticker delivered a price, eth iff the ETH ticker delivered a price.
C2_IndependentFeeds ==
    Returned =>
        /\ \A k \in Keys(cbr_prices) : Has(k) /\ Get(all_prices, k) = Get(cbr_prices, k)
        /\ Has(<<"b", "n", "c">>) <=> IsDec(bnc_price)
        /\ Has(<<"e", "t", "h">>) <=> IsDec(eth_price)
        /\ Keys(all_prices) \cap Primitives
               \subseteq Keys(cbr_prices) \cup {<<"b", "n", "c">>, <<"e", "t", "h">>}

\* C3: in every returned table eu is present iff er and ur are, ob iff bnc
\* and ur, oe iff eth and ur; and fetch_all_prices raises only with both
\* operands of some derived ticker in the table, never for a missing operand.
C3_DerivedIffOperands ==
    /\ Returned =>
          /\ Has(<<"e", "u">>) <=> (Has(<<"e", "r">>) /\ Has(<<"u", "r">>))
          /\ Has(<<"o", "b">>) <=> (Has(<<"b", "n", "c">>) /\ Has(<<"u", "r">>))
          /\ Has(<<"o", "e">>) <=> (Has(<<"e", "t", "h">>) /\ Has(<<"u", "r">>))
    /\ fetched = "raised" =>
          /\ Has(<<"u", "r">>)
          /\ Has(<<"e", "r">>) \/ Has(<<"b", "n", "c">>) \/ Has(<<"e", "t", "h">>)

\* A returned table with ur and bnc but without er: ob is derived, eu is not.
C3_Witness ==
    /\ Returned
    /\ Has(<<"u", "r">>) /\ ~Has(<<"e", "r">>) /\ Has(<<"b", "n", "c">>)
    /\ Has(<<"o", "b">>) /\ ~Has(<<"e", "u">>)

\* C4: fetch_all_prices returns an empty table only if all three sub-fetches
\* failed.
C4_EmptyOnlyIfAllFailed ==
    (Returned /\ all_prices = <<>>) => (~feeds.cbr.ok /\ ~feeds.bnc.ok /\ ~feeds.eth.ok)

\* C5: with an empty price table the answer is the rates-unavailable message
\* and no substitution, percentage rewrite, validation or evaluation has run.
C5_EmptyTableStopsAtOnce ==
    (Returned /\ all_prices = <<>>) =>
        /\ stages = <<>> /\ evaluated = <<>>
        /\ pc \in {"check_prices", "done"}
        /\ pc = "done" => result = Outcome("RatesUnavailable", <<>>)

\* The rates-unavailable answer to a query made of tickers.
C5_Witness ==
    /\ pc = "done" /\ result = Outcome("RatesUnavailable", <<>>)
    /\ original_expression = <<"o", "b", " ", "+", " ", "e", "u">>

\* The characters that the gate is to let through: space, the digits 0 to
\* 9, point, the four operator characters and the parentheses.
ListedChars == AsciiDigits \cup {" ", ".", "+", "-", "*", "/", "(", ")"}

\* C6: every string handed to eval consists of the listed characters only;
\* and when the rewritten string (after the substitution and both percentage
\* passes) has any other character, the answer is the invalid-characters
\* message and nothing was evaluated.
C6_OnlySafeStringsEvaluated ==
    /\ \A i \in 1..Len(evaluated) :
          evaluated[i] # <<>> /\ \A j \in 1..Len(evaluated[i]) : evaluated[i][j] \in ListedChars
    /\ (Ran("validate") /\ \E j \in 1..Len(expression) : expression[j] \notin ListedChars) =>
          (pc = "done" /\ result = Outcome("InvalidCharacters", <<>>) /\ evaluated = <<>>)

\* The tokens "**" and "//" of a string.
OtherOperators(s) == {i \in 1..Len(Tokenize(s)) : IsOp(Tokenize(s), i, {"**", "//"})}

\* C7: a string that is evaluated to a number and answered with a value uses
\* the four operators + - * / only: none has a power or a floor division.
C7_FourOperatorsOnly ==
    (pc = "done" /\ result.kind = "Value") =>
        \A i \in 1..Len(evaluated) : OtherOperators(evaluated[i]) = {}

Classes == {"RatesUnavailable", "SyntaxError", "DivisionByZero", "InvalidOperation", "UnknownError"}

\* C8: while fetch_all_prices waits, some task can take a step or all have
\* settled (every other position of the run has a next step, up to the
\* answer); the answer of evaluate_expression is a value, the
\* invalid-characters message or one of the five classified outcomes; an
\* exception raised by the fetch, by eval or by the rounding is answered with
\* its class (a division by zero in eval, or of a finite non-zero Decimal
\* in the fetch, with DivisionByZero; any other signal of the derived
\* tickers, such as 0 / 0 or infinity times zero, with InvalidOperation; an
\* exception of eval that no except clause names, such as the OverflowError
\* of a division, the MemoryError of the parser or the RecursionError of the
\* compiler, with UnknownError; parentheses nested deeper than the
\* tokenizer accepts with SyntaxError); and 5/0 is answered with
\* DivisionByZero.
C8_FailuresClassified ==
    /\ pc = "await" =>
          \/ ready # <<>>
          \/ AllSettled(task)
          \/ \E t \in Tasks : CanRespond(task, ready, t) \/ task[t] = "reading"
    /\ pc = "done" => result.kind \in Classes \cup {"Value", "InvalidCharacters"}
    /\ (pc = "done" /\ (fetched = "raised" \/ (Ran("eval") /\ ~IsValue(value))
                         \/ (Ran("round") /\ ~IsDec(rounded))))
          => result.kind \in Classes
    /\ (pc = "done" /\ value.t = "ZeroDivisionError") => result.kind = "DivisionByZero"
    /\ (pc = "done" /\ fetched = "raised") =>
          result.kind = (IF /\ Has(<<"e", "r">>)
                            /\ IsFinite(Get(all_prices, <<"e", "r">>))
                            /\ ~IsZero(Get(all_prices, <<"e", "r">>))
                            /\ IsZero(Get(all_prices, <<"u", "r">>))
                         THEN "DivisionByZero" ELSE "InvalidOperation")
    /\ (pc = "done" /\ value.t \in {"OverflowError", "MemoryError", "RecursionError"})
          => result.kind = "UnknownError"
    /\ (pc = "done" /\ evaluated \in {<<Nested(MaxLevel + 1)>>, <<NestedSigns(OverflowSigns - 1)>>})
          => result = Outcome("SyntaxError", <<>>)
    /\ (pc = "done" /\ evaluated = <<NestedSigns(OverflowSigns)>>)
          => value.t = "MemoryError"
    /\ (pc = "done" /\ evaluated = << <<"5", "/", "0">> >>)
          => result = Outcome("DivisionByZero", <<>>)

\* The answer to 5/0.
C8_Witness ==
    /\ pc = "done" /\ original_expression = <<"5", "/", "0">>
    /\ value.t = "ZeroDivisionError" /\ result.kind = "DivisionByZero"

\* C9: once eval returned a number, the result is a Decimal rounded to 8
\* fractional digits when the original expression contains bnc, eth, ob or
\* oe, and to 2 fractional digits otherwise.
C9_RoundedToPlaces ==
    (Ran("round") /\ IsNumber(value)) =>
        /\ IsDec(rounded)
        /\ rounded.e = (IF IsCrypto(original_expression) THEN -8 ELSE -2)

\* The expression that the two passes make of x, sign, p%, rest.
Rewritten(x, sign, p, rest) ==
    <<"(">> \o x \o <<"*", "(", "1", sign>> \o p \o <<"/", "1", "0", "0", ")", ")">> \o rest

\* The text that the substitution makes of an operand.
Substituted(x) == IF x = <<"u", "r">> THEN DStr(Get(all_prices, x)) ELSE x

\* C10: the passes run once each, the '+' pass before the '-' pass; a query
\* X + p% or X - p% evaluates to what X * (1 + p / 100) or X * (1 - p / 100)
\* evaluates to, for X a number, a number in parentheses or a substituted
\* price; with prices available, 100 + 10% is answered with 110,00 and
\* 200 - 25% with 150,00.
C10_PercentRewrite ==
    /\ \A i \in 1..Len(stages) :
          stages[i] = <<"substitute", "percent_plus", "percent_minus", "validate", "eval",
                        "round", "format">>[i]
    /\ Ran("eval") =>
          \A x \in PercentOperands, sp \in PercentSpacings, sign \in {"+", "-"},
             p \in PercentValues, rest \in PercentRests :
                original_expression = x \o sp \o <<sign>> \o sp \o p \o <<"%">> \o rest
                    => value = PyEval(Rewritten(Substituted(x), sign, p, rest))
    /\ (pc = "done" /\ all_prices # <<>>
           /\ original_expression = <<"1", "0", "0", " ", "+", " ", "1", "0", "%">>)
          => result = Outcome("Value", <<"1", "1", "0", ",", "0", "0">>)
    /\ (pc = "done" /\ all_prices # <<>>
           /\ original_expression = <<"2", "0", "0", " ", "-", " ", "2", "5", "%">>)
          => result = Outcome("Value", <<"1", "5", "0", ",", "0", "0">>)

\* The answer to 200 - 25%.
C10_Witness ==
    /\ original_expression = <<"2", "0", "0", " ", "-", " ", "2", "5", "%">>
    /\ evaluated = << <<"(", "2", "0", "0", " ", " ", "*", " ", "(", "1", " ", "-", " ",
                        "2", "5", " ", "/", " ", "1", "0", "0", ")", ")">> >>
    /\ result = Outcome("Value", <<"1", "5", "0", ",", "0", "0">>)

=============================================================================
